---- MODULE Spec2Model ----
(***************************************************************************)
(* Secret lifecycle workflows of rundeck-automation: the Copy workflow     *)
(* (clone-vault.py) and the Delete workflow (delete-vault.py) running      *)
(* against a key-value secret store through VaultClient                    *)
(* (utils/vault_client.py).                                                *)
(*                                                                         *)
(* A secret bundle is a function from a set of keys to values (a Python    *)
(* dict; the order of the keys is not modelled).  A path is a sequence of  *)
(* segments, the string being the segments joined by "/".  An error        *)
(* message is a sequence of text tokens.  The store is a function from     *)
(* the paths that hold a secret to their bundles.  An invocation runs one  *)
(* blocking HTTP request per step.                                         *)
(*                                                                         *)
(* Besides the two workflows the module has the methods of VaultClient     *)
(* called directly (SpecClient), the manifest publication of a run refined *)
(* into its git steps against a remote repository (SpecGit,                *)
(* utils/git_client.py), the lookup of the branch of an environment        *)
(* (SpecBranch) and SlackNotifier.send (SpecNotify, utils/notification.py),*)
(* the key-entry workflow (SpecInput, input-vault-key.py), the Copy,       *)
(* Delete and value-entry runs from the start of main() with the           *)
(* configuration that AppConfig.from_env finds (SpecMain, utils/config.py, *)
(* input-vault-value.py), runs that overlap on one path (SpecRace), a      *)
(* caller that writes and reads back (SpecTrip), and publications that     *)
(* overlap on the local disk (SpecWork).                                    *)
(***************************************************************************)
EXTENDS Integers, Sequences, FiniteSets, TLC

VARIABLES store, kv_version, st, call, repo, mapping, notifier, disk

vars == <<store, kv_version, st, call, repo, mapping, notifier, disk>>

\* what a step of a workflow run leaves alone besides the store: the direct
\* client call, the remote repository, the branch lookup, the notifier and
\* the directories on the local disk
rest == <<call, repo, mapping, notifier, disk>>

(* ------------------------------ bounds --------------------------------- *)
NumKeys == 2
NumVals == 2
NumRuns == 2

KeyNames == <<"A", "B", "C", "D">>
Keys == {KeyNames[n] : n \in 1..NumKeys}
Vals == 1..NumVals
Procs == 1..NumRuns

EmptyDict == << >>
Bundles == UNION {[D -> Vals] : D \in SUBSET Keys}

(* ------------------------------ paths ---------------------------------- *)
NoPath == << >>

SourcePaths(kv) ==
  IF kv = 1 THEN {<<"gke", "src">>, <<"gke", "app">>}
            ELSE {<<"gke", "data", "src">>, <<"gke", "data", "app">>}

VaultPaths(kv) ==
  IF kv = 1 THEN {<<"gke", "app">>, <<"gke", "app404">>}
            ELSE {<<"gke", "data", "app">>, <<"gke", "data", "app404">>,
                  <<"gke", "data", "team", "data", "app">>}

(* ------------------------ error message texts -------------------------- *)
\* `"404" in str(e).lower() or "not found" in str(e).lower()` on one token
TokenHas404OrNotFound(tok) ==
  tok \in {"404", "app404", "Secret not found at path: "}

\* the test if no error text were taken as "not found"
IsNotFoundText_never(msg) == FALSE

IsNotFoundText(msg) == \E n \in DOMAIN msg : TokenHas404OrNotFound(msg[n])

NoMsg == << >>

(* --------------------------- the secret store -------------------------- *)
FaultStatuses == {"500"}

Put(s, id, b) == [q \in DOMAIN s \cup {id} |-> IF q = id THEN b ELSE s[q]]
Remove(s, id) == [q \in DOMAIN s \ {id} |-> s[q]]

\* the secret a request path addresses; NoPath when the store has no such route
Route(kv, path) ==
  IF kv = 1 THEN path
  ELSE IF Len(path) >= 3 /\ path[2] \in {"data", "metadata"}
       THEN [path EXCEPT ![2] = "data"]
       ELSE NoPath

Resp(kind, status, body, text) ==
  [kind |-> kind, status |-> status, body |-> body, text |-> text]

\* texts of the transport exceptions of requests: a connection error names
\* the URL of the request, a read timeout does not
ExcTexts(path) ==
  {<<"Max retries exceeded with url: /v1/">> \o path, <<"Read timed out.">>}

FaultResps(path) ==
  {Resp("http", s, EmptyDict, NoMsg) : s \in FaultStatuses}
    \cup {Resp("exc", "", EmptyDict, t) : t \in ExcTexts(path)}

\* body of a read response
ReadBody(kv, b) ==
  IF kv = 1 THEN [data |-> b] ELSE [data |-> [data |-> b]]

\* GET: the answers the store can give; the store is not changed
StoreGet(s, kv, path) ==
  LET id == Route(kv, path) IN
    (IF id \in DOMAIN s /\ path = id
       THEN {Resp("http", "200", ReadBody(kv, s[id]), NoMsg)}
       ELSE {Resp("http", "404", EmptyDict, NoMsg)})
    \cup FaultResps(path)

\* what the store keeps of a write payload
StoredOf(kv, payload) ==
  IF kv = 1 THEN payload
  ELSE IF "data" \in DOMAIN payload THEN payload.data ELSE EmptyDict

\* POST if the store merged the payload into the secret it holds
StorePost_merging(s, kv, path, payload) ==
  LET id == Route(kv, path)
      new == StoredOf(kv, payload)
      old == IF id \in DOMAIN s THEN s[id] ELSE << >>
      applied == Put(s, id, [k \in DOMAIN old \cup DOMAIN new |->
                              IF k \in DOMAIN new THEN new[k] ELSE old[k]])
      okStatus == IF kv = 1 THEN "204" ELSE "200"
  IN (IF id # NoPath /\ path = id
        THEN {[resp |-> Resp("http", okStatus, EmptyDict, NoMsg), store |-> applied]}
        ELSE {[resp |-> Resp("http", "404", EmptyDict, NoMsg), store |-> s]})
     \cup {[resp |-> r, store |-> s] : r \in FaultResps(path)}

\* POST: pairs of answer and resulting store; a failed request may or may
\* not have been applied when the failure is a transport exception
StorePost(s, kv, path, payload) ==
  LET id == Route(kv, path)
      applied == Put(s, id, StoredOf(kv, payload))
      okStatus == IF kv = 1 THEN "204" ELSE "200"
  IN (IF id # NoPath /\ path = id
        THEN {[resp |-> Resp("http", okStatus, EmptyDict, NoMsg), store |-> applied]}
               \cup {[resp |-> Resp("exc", "", EmptyDict, t), store |-> applied] :
                       t \in ExcTexts(path)}
        ELSE {[resp |-> Resp("http", "404", EmptyDict, NoMsg), store |-> s]})
     \cup {[resp |-> r, store |-> s] : r \in FaultResps(path)}

\* DELETE: on the data path the current version, on the metadata path
\* everything; a store may answer 204 or 404 when nothing is there
StoreDelete(s, kv, path) ==
  LET id == Route(kv, path)
      removed == Remove(s, id)
  IN (IF id \in DOMAIN s
        THEN {[resp |-> Resp("http", "204", EmptyDict, NoMsg), store |-> removed]}
               \cup {[resp |-> Resp("exc", "", EmptyDict, t), store |-> removed] :
                       t \in ExcTexts(path)}
        ELSE {[resp |-> Resp("http", c, EmptyDict, NoMsg), store |-> s] :
                c \in {"204", "404"}})
     \cup {[resp |-> r, store |-> s] : r \in FaultResps(path)}

(* ------------------------------ VaultClient ---------------------------- *)
OkStatuses == {"200", "204"}

\* the payload if the KV v2 envelope were left out
WritePayload_unwrapped(kv, data) == data

\* write_secret: the JSON payload of the request
WritePayload(kv, data) == IF kv = 1 THEN data ELSE [data |-> data]

\* result.get("data", {})
GetData(d) == IF "data" \in DOMAIN d THEN d.data ELSE EmptyDict

\* the data if only the outer level of the body were taken out
ReadUnwrap_oneLevel(kv, result) ==
  IF "data" \in DOMAIN result THEN result.data ELSE EmptyDict

\* read_secret: the data taken out of the response body
ReadUnwrap(kv, result) ==
  IF kv = 1 THEN GetData(result) ELSE GetData(GetData(result))

Outcome(raised, value, msg) == [raised |-> raised, value |-> value, msg |-> msg]

\* response.raise_for_status(): raises for the statuses from 400 to 599
RaisesForStatus(status) == status \in {"403", "404", "500"}

\* read_secret if a 404 got the generic text of the other HTTP errors
read_secret_generic404(kv, path, resp) ==
  IF resp.kind = "exc"
    THEN Outcome(TRUE, EmptyDict, <<"Failed to read from Vault: ">> \o resp.text)
  ELSE IF ~RaisesForStatus(resp.status)
    THEN Outcome(FALSE, ReadUnwrap(kv, resp.body), NoMsg)
  ELSE Outcome(TRUE, EmptyDict, <<"Vault API error: ", resp.status>>)

\* read_secret: the returned dict, or the VaultAPIError raised
read_secret(kv, path, resp) ==
  IF resp.kind = "exc"
    THEN Outcome(TRUE, EmptyDict, <<"Failed to read from Vault: ">> \o resp.text)
  ELSE IF ~RaisesForStatus(resp.status)
    THEN Outcome(FALSE, ReadUnwrap(kv, resp.body), NoMsg)
  ELSE IF resp.status = "404"
    THEN Outcome(TRUE, EmptyDict, <<"Secret not found at path: ">> \o path)
  ELSE Outcome(TRUE, EmptyDict, <<"Vault API error: ", resp.status>>)

\* write_secret if a status other than 200 and 204 were reported by the
\* return value
write_secret_returnsFalse(resp) ==
  IF resp.kind = "exc"
    THEN Outcome(TRUE, FALSE, <<"Vault request failed: ">> \o resp.text)
    ELSE Outcome(FALSE, resp.status \in OkStatuses, NoMsg)

\* write_secret: True, or the VaultAPIError raised for another status, for
\* a timeout and for the other request exceptions
write_secret(resp) ==
  IF resp.kind = "exc"
    THEN IF resp.text = <<"Read timed out.">>
           THEN Outcome(TRUE, FALSE, <<"Vault request timeout after ", "timeout", "s">>)
           ELSE Outcome(TRUE, FALSE, <<"Vault request failed: ">> \o resp.text)
  ELSE IF resp.status \in OkStatuses
    THEN Outcome(FALSE, TRUE, NoMsg)
  ELSE Outcome(TRUE, FALSE, <<"Vault API error: ", resp.status, " - ">> \o resp.text)

\* delete_secret: True, False on 404, the VaultAPIError raised by the
\* handlers of the HTTP error and of the other exceptions, or the False
\* after a raise_for_status() that did not raise
delete_secret(resp) ==
  IF resp.kind = "exc"
    THEN Outcome(TRUE, FALSE, <<"Failed to delete secret: ">> \o resp.text)
  ELSE IF resp.status \in OkStatuses
    THEN Outcome(FALSE, TRUE, NoMsg)
  ELSE IF resp.status = "404"
    THEN Outcome(FALSE, FALSE, NoMsg)
  ELSE IF RaisesForStatus(resp.status)
    THEN Outcome(TRUE, FALSE, <<"Failed to delete secret: ", resp.status>>)
  ELSE Outcome(FALSE, FALSE, NoMsg)

\* path.replace('/data/', '/metadata/') from segment n on: a segment "data"
\* with a "/" on both sides is replaced; the "/" a match has used is not
\* available to the next segment
RECURSIVE ReplaceFrom(_, _, _)
ReplaceFrom(path, n, slashUsed) ==
  IF n > Len(path) THEN << >>
  ELSE IF path[n] = "data" /\ n > 1 /\ n < Len(path) /\ ~slashUsed
    THEN <<"metadata">> \o ReplaceFrom(path, n + 1, TRUE)
    ELSE <<path[n]>> \o ReplaceFrom(path, n + 1, FALSE)

\* delete_metadata: the path of the DELETE request
metadata_path(path) == ReplaceFrom(path, 1, FALSE)

\* the guard if delete_metadata did not look at the KV version
MetadataUnsupported_never(kv) == FALSE

\* delete_metadata: `if self.kv_version == 1: raise VaultAPIError(...)`
MetadataUnsupported(kv) == kv = 1

\* delete_metadata: the VaultAPIError of a KV v1 client, else True, False
\* on 404, the VaultAPIError of the handlers, or the False after a
\* raise_for_status() that did not raise
delete_metadata(kv, resp) ==
  IF MetadataUnsupported(kv)
    THEN Outcome(TRUE, FALSE, <<"delete_metadata is only available for KV v2">>)
  ELSE IF resp.kind = "exc"
    THEN Outcome(TRUE, FALSE, <<"Failed to delete metadata: ">> \o resp.text)
  ELSE IF resp.status \in OkStatuses
    THEN Outcome(FALSE, TRUE, NoMsg)
  ELSE IF resp.status = "404"
    THEN Outcome(FALSE, FALSE, NoMsg)
  ELSE IF RaisesForStatus(resp.status)
    THEN Outcome(TRUE, FALSE, <<"Failed to delete metadata: ", resp.status>>)
  ELSE Outcome(FALSE, FALSE, NoMsg)

(* ---------------------------- configuration ---------------------------- *)
\* What AppConfig.from_env finds: whether the configuration secret could
\* be loaded ("no_token" when RD_OPTION_VAULTTOKEN is not set, "unreadable"
\* when the read failed), the entry VAULT_TOKEN_<ENV> of that secret, its
\* entry GIT_REPO_URL, and the environment variables VAULT_PATH and
\* RD_OPTION_VAULTNAME.
Cfg(secrets, token, git, VAULT_PATH, VAULTNAME) ==
  [secrets |-> secrets, token |-> token, git |-> git,
   VAULT_PATH |-> VAULT_PATH, VAULTNAME |-> VAULTNAME]

\* a job started with its options on an environment that is set up
CompleteConfig == Cfg("loaded", "set", "set", "unset", "set")

AllConfigs ==
  {Cfg(s, t, g, p, n) : s \in {"loaded", "no_token", "unreadable"},
                        t \in {"set", "empty", "missing"},
                        g \in {"set", "missing"},
                        p \in {"unset", "empty", "set"},
                        n \in {"set", "unset"}}

\* the complete configuration and the ones with one setting changed
Configs ==
  {c \in AllConfigs :
     Cardinality({f \in DOMAIN c : c[f] # CompleteConfig[f]}) <= 1}

\* from_env goes on with vault_secrets = {} when the secret was not loaded;
\* vault_secrets["RD_TOKEN"], vault_secrets["VAULT_TOKEN_..."] and
\* vault_secrets["GIT_REPO_URL"] raise KeyError for an entry that is not
\* there
FromEnvRaises(c) ==
  c.secrets # "loaded" \/ c.token = "missing" \/ c.git = "missing"

\* VaultConfig.path:
\* os.getenv("VAULT_PATH", f"gke/{os.getenv('RD_OPTION_VAULTNAME')}")
ConfigPath(c) ==
  CASE c.VAULT_PATH = "set" -> <<"gke", "app">>
    [] c.VAULT_PATH = "empty" -> << >>
    [] c.VAULT_PATH = "unset" ->
         <<"gke", IF c.VAULTNAME = "set" THEN "app" ELSE "None">>

\* `if not config.vault.token` and `if not config.vault.path`
ConfigIncomplete(c) == c.token # "set" \/ ConfigPath(c) = << >>

\* the exit code of `except Exception` in main()
MainExceptExit(wf) == IF wf \in {"copy", "delete"} THEN 2 ELSE 1

(* ----------------------------- invocations ----------------------------- *)
\* input.yaml as the template renders it from the template data; the
\* vault name and the namespace are the same in every run
Render(env, action, keys) == [ENV |-> env, action |-> action, vault_keys |-> keys]

\* a branch or a working tree without input.yaml
NoFile == Render("", "", {})

\* One run of a script: its arguments, the locals of copy_vault_secret or
\* delete_vault_secret, what main() handed to manifest generation, the exit
\* code (-1 while running), the requests sent, and the store as the run
\* found it; of the manifest publication the environment, the branch, the
\* input.yaml of the cloned commit (base), of the working tree (work) and
\* of the index, the local commits not yet pushed (ahead), and the git
\* steps attempted, each with its result and whether the environment made
\* it fail, and how the push ended; of the key-entry script whether a
\* webhook URL is configured and whether the approval job was imported;
\* what from_env finds (cfg), whether config.git is set (from_env always
\* sets it), the mode the manifest was generated in, and of the value-entry
\* script --skip-yaml and the secret data gathered from the options; the
\* environment variables RD_JOB_ID and RD_JOB_EXECID, what clone found at
\* the local path, and the variables RD_OPTION_<key> that are set.
NewRun(wf, source_path, vault_path, overwrite, permanent) ==
  [wf |-> wf, pc |-> "main",
   source_path |-> source_path, vault_path |-> vault_path,
   overwrite |-> overwrite, permanent |-> permanent,
   source_data |-> EmptyDict, existing_dest_data |-> EmptyDict,
   dest_exists |-> FALSE, final_data |-> EmptyDict, action |-> "",
   result_data |-> EmptyDict, deleted_keys |-> {}, returned |-> "",
   keys |-> {}, context_action |-> "", yaml_called |-> FALSE,
   yaml_generated |-> FALSE, exit_code |-> -1,
   reqs |-> << >>, store0 |-> << >>,
   env |-> "", branch |-> "", base |-> NoFile, work |-> NoFile,
   index |-> NoFile, ahead |-> 0, steps |-> << >>, push_result |-> "",
   slack_enabled |-> FALSE, imported |-> FALSE,
   cfg |-> CompleteConfig, git_config |-> TRUE, mode |-> "",
   skip_yaml |-> FALSE, data |-> EmptyDict,
   RD_JOB_ID |-> "unset", RD_JOB_EXECID |-> "unset", found |-> {},
   options |-> EmptyDict]

\* a request of the run and the status of its answer ("exc" for a
\* transport exception)
Req(method, path, body, resp) ==
  [method |-> method, path |-> path, body |-> body,
   status |-> IF resp.kind = "exc" THEN "exc" ELSE resp.status]

Sent(i, method, path, body, resp) ==
  Append(st[i].reqs, Req(method, path, body, resp))

\* runs follow one another: run i starts when run i-1 has exited
MayStart(i) == IF i = 1 THEN TRUE ELSE st[i - 1].pc = "exit"

\* main() of clone-vault.py and delete-vault.py up to the call of the
\* workflow function: configuration is present, the client is constructed
Main(i) ==
  /\ st[i].pc = "main"
  /\ MayStart(i)
  /\ st' = [st EXCEPT ![i].pc = IF st[i].wf = "copy" THEN "read_source" ELSE "read",
                      ![i].store0 = store]
  /\ UNCHANGED <<store, kv_version, rest>>

\* main() of clone-vault.py, delete-vault.py and input-vault-value.py up to
\* the call of the workflow function, with the configuration it finds:
\* input-vault-value.py parses the keys first (ValidationError without a
\* key), an exception of from_env leaves main() through `except Exception`,
\* a falsy token or path returns 1
ConfigMain(i) ==
  /\ st[i].pc = "main"
  /\ MayStart(i)
  /\ LET r == st[i]
         first == CASE r.wf = "copy" -> "read_source"
                    [] r.wf = "delete" -> "read"
                    [] r.wf = "value" -> "write_value"
     IN st' = [st EXCEPT ![i] =
                 IF r.wf = "value" /\ r.keys = {}
                   THEN [r EXCEPT !.pc = "exit", !.exit_code = 1, !.store0 = store]
                 ELSE IF FromEnvRaises(r.cfg)
                   THEN [r EXCEPT !.pc = "exit", !.store0 = store,
                                  !.exit_code = MainExceptExit(r.wf)]
                 ELSE IF ConfigIncomplete(r.cfg)
                   THEN [r EXCEPT !.pc = "exit", !.exit_code = 1, !.store0 = store]
                 ELSE [r EXCEPT !.pc = first, !.store0 = store,
                                !.vault_path = ConfigPath(r.cfg),
                                !.git_config = TRUE]]
  /\ UNCHANGED <<store, kv_version, rest>>

\* runs of separate processes that nothing coordinates: the second run
\* starts whenever the job system starts it, whatever the first is doing;
\* a later run follows when the one before it has ended
Start(i) ==
  /\ st[i].pc = "main"
  /\ IF i <= 2 THEN TRUE ELSE st[i - 1].pc = "exit"
  /\ st' = [st EXCEPT ![i].pc = IF st[i].wf = "copy" THEN "read_source" ELSE "read",
                      ![i].store0 = store]
  /\ UNCHANGED <<store, kv_version, rest>>

(* ------------------------- direct client calls ------------------------- *)
\* One call of a VaultClient method by a caller that holds the client: the
\* method and its arguments, whether it has returned, the requests it
\* sent, the text of the HTTP answer (response.text), its outcome, and the
\* store as the call found it; the calls the caller makes on the client
\* after this one, and the calls it has made before.
ClientOps == {"read_secret", "write_secret", "delete_secret", "delete_metadata"}

NoOutcome == Outcome(FALSE, FALSE, NoMsg)

NewCall(op, path, data) ==
  [op |-> op, path |-> path, data |-> data, done |-> FALSE,
   reqs |-> << >>, text |-> NoMsg, out |-> NoOutcome, store0 |-> << >>,
   todo |-> << >>, log |-> << >>]

NoCall == NewCall("", NoPath, EmptyDict)

\* no request was sent, so there is no answer
NoResp == Resp("", "", EmptyDict, NoMsg)

\* answers that come whatever the store holds: 202 Accepted from a proxy
\* in front of the store, 403 Forbidden with the error text of the store
GatewayResps ==
  {Resp("http", "202", EmptyDict, NoMsg),
   Resp("http", "403", EmptyDict, <<"permission denied">>)}

Returned(out, reqs, resp) ==
  [call EXCEPT !.done = TRUE, !.out = out, !.reqs = reqs,
               !.text = IF resp.kind = "http" THEN resp.text ELSE NoMsg,
               !.store0 = store]

ClientRead ==
  /\ call.op = "read_secret" /\ ~call.done
  /\ \E resp \in StoreGet(store, kv_version, call.path) \cup GatewayResps :
       call' = Returned(read_secret(kv_version, call.path, resp),
                        <<Req("GET", call.path, EmptyDict, resp)>>, resp)
  /\ UNCHANGED <<store, kv_version, st, repo, mapping, notifier, disk>>

ClientWrite ==
  /\ call.op = "write_secret" /\ ~call.done
  /\ LET payload == WritePayload(kv_version, call.data)
     IN \E o \in StorePost(store, kv_version, call.path, payload)
                  \cup {[resp |-> r, store |-> store] : r \in GatewayResps} :
          /\ store' = o.store
          /\ call' = Returned(write_secret(o.resp),
                              <<Req("POST", call.path, payload, o.resp)>>, o.resp)
  /\ UNCHANGED <<kv_version, st, repo, mapping, notifier, disk>>

ClientDeleteSecret ==
  /\ call.op = "delete_secret" /\ ~call.done
  /\ \E o \in StoreDelete(store, kv_version, call.path)
                \cup {[resp |-> r, store |-> store] : r \in GatewayResps} :
       /\ store' = o.store
       /\ call' = Returned(delete_secret(o.resp),
                           <<Req("DELETE", call.path, EmptyDict, o.resp)>>,
                           o.resp)
  /\ UNCHANGED <<kv_version, st, repo, mapping, notifier, disk>>

ClientDeleteMetadata ==
  /\ call.op = "delete_metadata" /\ ~call.done
  /\ IF MetadataUnsupported(kv_version)
       THEN /\ store' = store
            /\ call' = Returned(delete_metadata(kv_version, NoResp), << >>, NoResp)
       ELSE LET path == metadata_path(call.path)
            IN \E o \in StoreDelete(store, kv_version, path)
                         \cup {[resp |-> r, store |-> store] : r \in GatewayResps} :
                 /\ store' = o.store
                 /\ call' = Returned(delete_metadata(kv_version, o.resp),
                                     <<Req("DELETE", path, EmptyDict, o.resp)>>,
                                     o.resp)
  /\ UNCHANGED <<kv_version, st, repo, mapping, notifier, disk>>

\* what the caller keeps of a call that has returned
Made(c) ==
  [op |-> c.op, data |-> c.data, out |-> c.out,
   status |-> IF c.reqs = << >> THEN "" ELSE c.reqs[1].status]

\* the caller makes its next call on the same client and the same path; a
\* call that raised has ended the caller's sequence
ClientNext ==
  /\ call.done /\ call.todo # << >>
  /\ ~call.out.raised
  /\ call' = [NewCall(Head(call.todo).op, call.path, Head(call.todo).data)
                EXCEPT !.todo = Tail(call.todo),
                       !.log = Append(call.log, Made(call))]
  /\ UNCHANGED <<store, kv_version, st, repo, mapping, notifier, disk>>

(* --------------------------------- Copy -------------------------------- *)
\* the test if the empty-source check were missing
IsEmptySource_never(source_data) == FALSE

\* `if not source_data`
IsEmptySource(source_data) == source_data = EmptyDict

\* the merge if the destination took precedence: {**source, **dest}
MergeData_destWins(existing_dest_data, source_data) ==
  [k \in DOMAIN existing_dest_data \cup DOMAIN source_data |->
     IF k \in DOMAIN existing_dest_data THEN existing_dest_data[k]
                                        ELSE source_data[k]]

\* {**existing_dest_data, **source_data}
MergeData(existing_dest_data, source_data) ==
  [k \in DOMAIN existing_dest_data \cup DOMAIN source_data |->
     IF k \in DOMAIN source_data THEN source_data[k] ELSE existing_dest_data[k]]

\* step 3 if the overwrite flag were ignored for an existing destination
FinalData_alwaysMerge(overwrite, dest_exists, existing_dest_data, source_data) ==
  IF ~dest_exists THEN source_data
  ELSE [k \in DOMAIN existing_dest_data \cup DOMAIN source_data |->
          IF k \in DOMAIN source_data THEN source_data[k]
                                      ELSE existing_dest_data[k]]

\* step 3 of copy_vault_secret: the bundle to write
FinalData(overwrite, dest_exists, existing_dest_data, source_data) ==
  IF overwrite \/ ~dest_exists THEN source_data
  ELSE MergeData(existing_dest_data, source_data)

\* step 3 of copy_vault_secret: the action reported
CopyAction(overwrite, dest_exists) ==
  IF overwrite \/ ~dest_exists THEN "create" ELSE "add"

\* the returned bundle if the written bundle were returned
ReturnedData_final(source_data, final_data) == final_data

\* `return (source_data, action)`: the bundle of the returned pair
ReturnedData(source_data, final_data) == source_data

\* the failure if a write that failed were sent once more
CopyFailed_retriesWrite(i, reqs) ==
  IF Len(reqs) = 3
    THEN [st[i] EXCEPT !.pc = "write", !.reqs = reqs]
    ELSE [st[i] EXCEPT !.pc = "exit", !.returned = "None", !.exit_code = 1,
                       !.reqs = reqs]

\* the failure if main() went on to the manifest with a result of None
CopyFailed_publishes(i, reqs) ==
  [st[i] EXCEPT !.pc = "publish", !.returned = "None", !.reqs = reqs]

\* copy_vault_secret returns None and main() exits with 1
CopyFailed(i, reqs) ==
  [st[i] EXCEPT !.pc = "exit", !.returned = "None", !.exit_code = 1, !.reqs = reqs]

\* step 1: read the source
CopyReadSource(i) ==
  /\ st[i].pc = "read_source"
  /\ \E resp \in StoreGet(store, kv_version, st[i].source_path) :
       LET out == read_secret(kv_version, st[i].source_path, resp)
           reqs == Sent(i, "GET", st[i].source_path, EmptyDict, resp)
       IN st' = [st EXCEPT ![i] =
                   IF out.raised \/ IsEmptySource(out.value)
                     THEN CopyFailed(i, reqs)
                     ELSE [st[i] EXCEPT !.pc = "read_dest", !.reqs = reqs,
                                        !.source_data = out.value]]
  /\ UNCHANGED <<store, kv_version, rest>>

\* step 2: read the destination; an error whose text has "404" or
\* "not found" means the destination does not exist
CopyReadDest(i) ==
  /\ st[i].pc = "read_dest"
  /\ \E resp \in StoreGet(store, kv_version, st[i].vault_path) :
       LET out == read_secret(kv_version, st[i].vault_path, resp)
           reqs == Sent(i, "GET", st[i].vault_path, EmptyDict, resp)
       IN st' = [st EXCEPT ![i] =
                   IF ~out.raised
                     THEN [st[i] EXCEPT !.pc = "write", !.reqs = reqs,
                                        !.existing_dest_data = out.value,
                                        !.dest_exists = TRUE]
                   ELSE IF IsNotFoundText(out.msg)
                     THEN [st[i] EXCEPT !.pc = "write", !.reqs = reqs]
                   ELSE CopyFailed(i, reqs)]
  /\ UNCHANGED <<store, kv_version, rest>>

\* steps 3 and 4: compute the final bundle and write it
CopyWrite(i) ==
  /\ st[i].pc = "write"
  /\ LET final_data == FinalData(st[i].overwrite, st[i].dest_exists,
                                 st[i].existing_dest_data, st[i].source_data)
         action == CopyAction(st[i].overwrite, st[i].dest_exists)
         payload == WritePayload(kv_version, final_data)
     IN \E o \in StorePost(store, kv_version, st[i].vault_path, payload) :
          LET reqs == Sent(i, "POST", st[i].vault_path, payload, o.resp) IN
            /\ store' = o.store
            /\ st' = [st EXCEPT ![i] =
                        IF write_secret(o.resp).raised
                          THEN [CopyFailed(i, reqs) EXCEPT !.final_data = final_data,
                                                           !.action = action]
                          ELSE [st[i] EXCEPT !.pc = "publish", !.reqs = reqs,
                                             !.final_data = final_data,
                                             !.action = action,
                                             !.returned = "value",
                                             !.result_data =
                                               ReturnedData(st[i].source_data, final_data)]]
  /\ UNCHANGED <<kv_version, rest>>

\* `keys = list(source_data.keys())` in main(), on the returned bundle
ManifestKeys(result_data) == DOMAIN result_data

\* main() after a result: the keys and the action go to manifest
\* generation, whose outcome does not change the exit code
CopyPublish(i) ==
  /\ st[i].pc = "publish"
  /\ st[i].wf = "copy"
  /\ \E yaml_generated \in BOOLEAN :
       st' = [st EXCEPT ![i].pc = "exit",
                        ![i].keys = ManifestKeys(st[i].result_data),
                        ![i].context_action = st[i].action,
                        ![i].yaml_called = TRUE,
                        ![i].yaml_generated = yaml_generated,
                        ![i].exit_code = 0]
  /\ UNCHANGED <<store, kv_version, rest>>

(* -------------------------------- Delete ------------------------------- *)
\* the branch if the KV version were not looked at
UsePermanent_anyVersion(permanent, kv) == permanent

\* `if permanent and vault_client.kv_version == 2`
UsePermanent(permanent, kv) == permanent /\ kv = 2

\* main() of delete-vault.py: the exit code for the value that
\* delete_vault_secret returned
DeleteExitCode(returnedNone) == IF returnedNone THEN 2 ELSE 0

\* delete_vault_secret returns None
DeleteFailed(i, reqs) ==
  [st[i] EXCEPT !.pc = "exit", !.returned = "None",
                !.exit_code = DeleteExitCode(TRUE), !.reqs = reqs]

\* step 1: read the keys before deletion; an error whose text has "404" or
\* "not found" returns the empty list
DeleteRead(i) ==
  /\ st[i].pc = "read"
  /\ \E resp \in StoreGet(store, kv_version, st[i].vault_path) :
       LET out == read_secret(kv_version, st[i].vault_path, resp)
           reqs == Sent(i, "GET", st[i].vault_path, EmptyDict, resp)
       IN st' = [st EXCEPT ![i] =
                   IF ~out.raised
                     THEN [st[i] EXCEPT !.pc = "delete", !.reqs = reqs,
                                        !.deleted_keys = DOMAIN out.value]
                   ELSE IF IsNotFoundText(out.msg)
                     THEN [st[i] EXCEPT !.pc = "publish", !.reqs = reqs,
                                        !.deleted_keys = {},
                                        !.returned = "value"]
                   ELSE DeleteFailed(i, reqs)]
  /\ UNCHANGED <<store, kv_version, rest>>

\* step 2: delete_metadata or delete_secret; the keys read before are
\* returned when the call returned True
DeleteCall(i) ==
  /\ st[i].pc = "delete"
  /\ LET perm == UsePermanent(st[i].permanent, kv_version)
         path == IF perm THEN metadata_path(st[i].vault_path) ELSE st[i].vault_path
     IN IF perm /\ MetadataUnsupported(kv_version)
          \* delete_metadata raises on a KV v1 client before any request
          THEN /\ store' = store
               /\ st' = [st EXCEPT ![i] = DeleteFailed(i, st[i].reqs)]
          ELSE \E o \in StoreDelete(store, kv_version, path) :
                 LET out == delete_secret(o.resp)
                     reqs == Sent(i, "DELETE", path, EmptyDict, o.resp)
                 IN /\ store' = o.store
                    /\ st' = [st EXCEPT ![i] =
                                IF ~out.raised /\ out.value
                                  THEN [st[i] EXCEPT !.pc = "publish", !.reqs = reqs,
                                                     !.returned = "value"]
                                  ELSE DeleteFailed(i, reqs)]
  /\ UNCHANGED <<kv_version, rest>>

\* main() after a result that is not None: the deleted keys and the action
\* "delete" go to manifest generation, whose outcome does not change the
\* exit code
DeletePublish(i) ==
  /\ st[i].pc = "publish"
  /\ st[i].wf = "delete"
  /\ \E yaml_generated \in BOOLEAN :
       st' = [st EXCEPT ![i].pc = "exit",
                        ![i].keys = st[i].deleted_keys,
                        ![i].context_action = "delete",
                        ![i].yaml_called = TRUE,
                        ![i].yaml_generated = yaml_generated,
                        ![i].exit_code = DeleteExitCode(FALSE)]
  /\ UNCHANGED <<store, kv_version, rest>>

(* ------------------------ value-entry workflow ------------------------- *)
\* input-vault-value.py: RD_OPTION_ACTION as the approval job passes it
ValueActions == {"create", "add"}

\* the value of a key whose variable RD_OPTION_<key> is not set: `value = ""`
EmptyString == 0

\* gather_secret_data: every key gets the value of its variable, or ""
gather_secret_data(keys, options) ==
  [k \in keys |-> IF k \in DOMAIN options THEN options[k] ELSE EmptyString]

\* VaultClient has no method put_secret: the call under the action "add"
\* raises AttributeError before any request
HasPutSecret == FALSE

\* main() leaves through an except clause: both return 1
ValueFailed(i, reqs) ==
  [st[i] EXCEPT !.pc = "exit", !.returned = "None", !.exit_code = 1, !.reqs = reqs]

\* main() after the write: manifest generation unless --skip-yaml
AfterValueWrite(r) ==
  IF r.skip_yaml THEN [r EXCEPT !.pc = "exit", !.exit_code = 0]
                 ELSE [r EXCEPT !.pc = "publish"]

\* step 2 of main(): put_secret under the action "add", else write_secret
\* of the gathered data
ValueWrite(i) ==
  /\ st[i].pc = "write_value"
  /\ IF st[i].context_action = "add" /\ ~HasPutSecret
       THEN /\ store' = store
            /\ st' = [st EXCEPT ![i] = ValueFailed(i, st[i].reqs)]
       ELSE LET payload == WritePayload(kv_version, st[i].data)
            IN \E o \in StorePost(store, kv_version, st[i].vault_path, payload) :
                 LET reqs == Sent(i, "POST", st[i].vault_path, payload, o.resp) IN
                   /\ store' = o.store
                   /\ st' = [st EXCEPT ![i] =
                               IF write_secret(o.resp).raised
                                 THEN ValueFailed(i, reqs)
                                 ELSE AfterValueWrite([st[i] EXCEPT !.reqs = reqs,
                                                                    !.returned = "value"])]
  /\ UNCHANGED <<kv_version, rest>>

(* ----------------------- manifest publication ------------------------- *)
\* generate_vault_gke_yaml_to_git refined into its git steps.  The remote
\* repository holds for every branch the input.yaml of its tip and the
\* number of commits pushed to it.
Branches == {"ct-dev", "ct-uat", "ct-prod"}

NoRepo == << >>

NewRepo == [b \in Branches |-> [file |-> NoFile, commits |-> 0]]

\* env.lower() on the environment names of the model
Lower(env) ==
  CASE env \in {"dev", "Dev", "DEV", "dEv"} -> "dev"
    [] env \in {"uat", "Uat", "UAT", "uAT"} -> "uat"
    [] env \in {"prod", "Prod", "PROD", "pROD"} -> "prod"
    [] env \in {"staging", "Staging", "STAGING"} -> "staging"
    [] env \in {"qa", "QA"} -> "qa"
    [] env \in {"ct-prod", "CT-PROD"} -> "ct-prod"
    [] env \in {"production", "Production"} -> "production"
    [] env \in {"", "prod ", "ct-dev"} -> env

\* the lookup if the name were not lowered first
get_git_branch_from_env_caseSensitive(env) ==
  CASE env = "dev" -> "ct-dev"
    [] env = "uat" -> "ct-uat"
    [] env = "prod" -> "ct-prod"
    [] OTHER -> "ct-dev"

\* branch_mapping.get(env.lower(), "ct-dev")
get_git_branch_from_env(env) ==
  CASE Lower(env) = "dev" -> "ct-dev"
    [] Lower(env) = "uat" -> "ct-uat"
    [] Lower(env) = "prod" -> "ct-prod"
    [] OTHER -> "ct-dev"

\* get_git_branch_from_env of delete-vault.py
delete_get_git_branch_from_env(env) ==
  CASE Lower(env) = "dev" -> "ct-dev"
    [] Lower(env) = "uat" -> "ct-uat"
    [] Lower(env) = "prod" -> "ct-prod"
    [] OTHER -> "ct-dev"

\* get_git_branch_from_env of input-vault-value.py
value_get_git_branch_from_env(env) ==
  CASE Lower(env) = "dev" -> "ct-dev"
    [] Lower(env) = "uat" -> "ct-uat"
    [] Lower(env) = "prod" -> "ct-prod"
    [] OTHER -> "ct-dev"

\* the function of the script of the workflow
BranchFor(wf, env) ==
  CASE wf = "copy" -> get_git_branch_from_env(env)
    [] wf = "delete" -> delete_get_git_branch_from_env(env)
    [] wf = "value" -> value_get_git_branch_from_env(env)

\* the steps in the order of generate_vault_gke_yaml_to_git and
\* commit_and_push
GitSteps == <<"clone", "render", "add", "commit", "push">>

\* where a run is after a step that succeeded
StepAfter(step) ==
  LET n == CHOOSE k \in DOMAIN GitSteps : GitSteps[k] = step
  IN IF n = Len(GitSteps) THEN "exit" ELSE GitSteps[n + 1]

\* the publication if a failed step were logged and the next step taken
AfterFailure_goOn(step) == StepAfter(step)

\* where a run is after a step that raised: the except clauses of
\* generate_vault_gke_yaml_to_git return False
AfterFailure(step) == "exit"

\* the exit code if main() looked at yaml_generated
ExitAfterPublish_failing(wf, yaml_generated) == IF yaml_generated THEN 0 ELSE 1

\* main() after manifest generation: clone-vault.py falls off the end of
\* main(), delete-vault.py and input-vault-value.py return 0, whatever
\* yaml_generated is
ExitAfterPublish(wf, yaml_generated) ==
  IF wf = "delete" THEN DeleteExitCode(FALSE) ELSE 0

\* the run record after a step and its result
AfterStep(r, step, ok, fault) ==
  LET pc2 == IF ok THEN StepAfter(step) ELSE AfterFailure(step)
      logged == [r EXCEPT !.pc = pc2,
                          !.steps = Append(@, [step |-> step, ok |-> ok,
                                               fault |-> fault])]
  IN IF pc2 = "exit"
       THEN [logged EXCEPT !.yaml_generated = ok,
                           !.exit_code = ExitAfterPublish(r.wf, ok)]
       ELSE logged

\* how the manifest is generated: with config.git through the repository;
\* without it input-vault-value.py renders to a local file
\* (generate_vault_gke_yaml), while generate_vault_gke_yaml_to_git of
\* clone-vault.py and delete-vault.py returns False
PublicationMode(wf, git_config) ==
  IF git_config THEN "git" ELSE IF wf = "value" THEN "legacy" ELSE "none"

\* main() hands the keys and the action to manifest generation, which
\* takes the branch of the environment
PublishBegin(i) ==
  /\ st[i].pc = "publish"
  /\ LET wf == st[i].wf
         mode == PublicationMode(wf, st[i].git_config)
         r == [st[i] EXCEPT
                 !.keys = CASE wf = "copy" -> ManifestKeys(st[i].result_data)
                            [] wf = "delete" -> st[i].deleted_keys
                            [] wf = "value" -> st[i].keys,
                 !.context_action = CASE wf = "copy" -> st[i].action
                                      [] wf = "delete" -> "delete"
                                      [] wf = "value" -> st[i].context_action,
                 !.yaml_called = TRUE,
                 !.mode = mode]
     IN \E ok \in BOOLEAN :
          st' = [st EXCEPT ![i] =
                   CASE mode = "git" ->
                          [r EXCEPT !.pc = GitSteps[1],
                                    !.branch = BranchFor(wf, r.env)]
                     [] mode = "legacy" ->
                          [r EXCEPT !.pc = "exit", !.yaml_generated = ok,
                                    !.work = IF ok THEN Render(r.env, r.context_action,
                                                               r.keys)
                                                   ELSE r.work,
                                    !.exit_code = ExitAfterPublish(wf, ok)]
                     [] mode = "none" ->
                          [r EXCEPT !.pc = "exit", !.yaml_generated = FALSE,
                                    !.exit_code = ExitAfterPublish(wf, FALSE)]]
  /\ UNCHANGED <<store, kv_version, rest>>

(* --------------------------- local directories ------------------------- *)
\* The local disk is a function from the directories that exist to what
\* they hold: whether the directory is a git checkout, its branch, the
\* number of commits of the remote branch when it was cloned, input.yaml
\* of the cloned commit (base), of HEAD, of the index and of the working
\* tree, the number of local commits not pushed, and whether there are
\* files that are not of the checkout.
NoDisk == << >>

\* os.getenv("RD_JOB_EXECID", "0")
ExecId(RD_JOB_EXECID) == IF RD_JOB_EXECID = "unset" THEN "0" ELSE RD_JOB_EXECID

\* os.getenv("RD_JOB_ID", "unknown_job"), in input-vault-value.py
\* os.environ.get("RD_JOB_ID", "default")
JobId(wf, RD_JOB_ID) ==
  IF RD_JOB_ID # "unset" THEN RD_JOB_ID
  ELSE IF wf = "value" THEN "default" ELSE "unknown_job"

\* repo_local_path below config.output_dir: {job_id}/config-repo-{exec_id}
\* in clone-vault.py and delete-vault.py, config-repo-{exec_id} in
\* input-vault-value.py
LocalPath(r) ==
  IF r.wf = "value"
    THEN <<"config-repo-", ExecId(r.RD_JOB_EXECID)>>
    ELSE <<JobId(r.wf, r.RD_JOB_ID), "config-repo-", ExecId(r.RD_JOB_EXECID)>>

\* what Repo.clone_from leaves at the path: the checkout of the branch
FreshClone(branch, at, file) ==
  [git |-> TRUE, branch |-> branch, at |-> at, base |-> file, head |-> file,
   index |-> file, work |-> file, ahead |-> 0, other |-> FALSE]

\* a directory that is not a checkout, with the file in it
PlainDir(file, other) ==
  [git |-> FALSE, branch |-> "", at |-> 0, base |-> NoFile, head |-> NoFile,
   index |-> NoFile, work |-> file, ahead |-> 0, other |-> other]

\* local_path.exists()
Exists(d, dir) == dir \in DOMAIN d

\* Repo(str(repo_path)) of get_repo: InvalidGitRepositoryError when the
\* path is not a checkout
IsRepo(d, dir) == Exists(d, dir) /\ d[dir].git

\* clone if an existing directory were kept and the clone put into it
CloneInto_keepingFiles(d, dir, branch, at, file) ==
  Put(d, dir, IF Exists(d, dir)
                THEN [FreshClone(branch, at, file) EXCEPT !.other = d[dir].other]
                ELSE FreshClone(branch, at, file))

\* shutil.rmtree(local_path) when the path exists, then Repo.clone_from
CloneInto(d, dir, branch, at, file) ==
  Put(Remove(d, dir), dir, FreshClone(branch, at, file))

\* what a run has of the checkout after one of its steps
Synced(r, ws) ==
  [r EXCEPT !.base = ws.base, !.work = ws.work, !.index = ws.index,
            !.ahead = ws.ahead]

\* GitClient.clone: whatever is at the path is removed, then a shallow
\* clone of the branch is made there; a clone that failed may have removed
\* the directory before
GitClone(i) ==
  /\ st[i].pc = "clone"
  /\ LET dir == LocalPath(st[i])
         branch == st[i].branch
         r == [st[i] EXCEPT !.found = IF Exists(disk, dir) THEN {disk[dir]}
                                                            ELSE {}]
     IN \E ok \in BOOLEAN :
          \E d \in (IF ok THEN {CloneInto(disk, dir, branch, repo[branch].commits,
                                          repo[branch].file)}
                          ELSE {disk, Remove(disk, dir)}) :
            /\ disk' = d
            /\ st' = [st EXCEPT ![i] =
                        AfterStep(IF ok THEN Synced(r, d[dir]) ELSE r,
                                  "clone", ok, ~ok)]
  /\ UNCHANGED <<store, kv_version, call, repo, mapping, notifier>>

\* open(output_path, "w") after output_path.parent.mkdir(parents=True,
\* exist_ok=True): input.yaml of the directory
WriteFile(d, dir, file) ==
  Put(d, dir, IF Exists(d, dir) THEN [d[dir] EXCEPT !.work = file]
                                ELSE PlainDir(file, FALSE))

\* TemplateRenderer.render_to_file: input.yaml of the working tree
RenderToFile(i) ==
  /\ st[i].pc = "render"
  /\ LET dir == LocalPath(st[i])
         d == WriteFile(disk, dir,
                        Render(st[i].env, st[i].context_action, st[i].keys))
     IN \E ok \in BOOLEAN :
          /\ disk' = IF ok THEN d ELSE disk
          /\ st' = [st EXCEPT ![i] =
                      AfterStep(IF ok THEN Synced(st[i], d[dir]) ELSE st[i],
                                "render", ok, ~ok)]
  /\ UNCHANGED <<store, kv_version, call, repo, mapping, notifier>>

\* GitClient.add_file: repo.index.add(["input.yaml"])
GitAdd(i) ==
  /\ st[i].pc = "add"
  /\ LET dir == LocalPath(st[i]) IN
       \E fault \in BOOLEAN :
         LET ok == ~fault /\ IsRepo(disk, dir)
             d == IF ok THEN [disk EXCEPT ![dir].index = disk[dir].work]
                        ELSE disk
         IN /\ disk' = d
            /\ st' = [st EXCEPT ![i] =
                        AfterStep(IF ok THEN Synced(st[i], d[dir]) ELSE st[i],
                                  "add", ok, ~ok)]
  /\ UNCHANGED <<store, kv_version, call, repo, mapping, notifier>>

\* `not repo.is_dirty() and not repo.untracked_files`: the index has what
\* HEAD has, the working tree has what the index has, and there is no
\* other file
NothingToCommit(ws) ==
  ws.index = ws.head /\ ws.work = ws.index /\ ~ws.other

\* GitClient.commit if it committed without looking for changes
GitCommitted_always(ws) == [ws EXCEPT !.ahead = ws.ahead + 1, !.head = ws.index]

\* GitClient.commit when it returns True: no commit when there is nothing
\* to commit, else a new local commit of the index
GitCommitted(ws) ==
  IF NothingToCommit(ws) THEN ws
  ELSE [ws EXCEPT !.ahead = ws.ahead + 1, !.head = ws.index]

\* GitClient.commit returns True with and without changes, unless loading
\* or configuring the repository or the commit itself raised
CommitReturnsTrue(r, fault) == ~fault

GitCommit(i) ==
  /\ st[i].pc = "commit"
  /\ LET dir == LocalPath(st[i]) IN
       \E f \in BOOLEAN :
         LET fault == f \/ ~IsRepo(disk, dir)
             ok == CommitReturnsTrue(st[i], fault)
             d == IF ok THEN [disk EXCEPT ![dir] = GitCommitted(disk[dir])]
                        ELSE disk
         IN /\ disk' = d
            /\ st' = [st EXCEPT ![i] =
                        AfterStep(IF ok THEN Synced(st[i], d[dir]) ELSE st[i],
                                  "commit", ok, fault)]
  /\ UNCHANGED <<store, kv_version, call, repo, mapping, notifier>>

\* GitClient.push: the remote takes the local commits, or a ref comes back
\* with the ERROR flag (a rejected push), or the command fails
PushResults == {"ok", "ref_error", "exc"}

\* origin.push(refspec=f"{branch}:{branch}") can succeed when the path is
\* a checkout of the branch and the remote branch is where the clone found
\* it
CanPush(d, dir, branch) ==
  /\ IsRepo(d, dir)
  /\ d[dir].branch = branch
  /\ d[dir].at = repo[branch].commits

GitPush(i) ==
  /\ st[i].pc = "push"
  /\ LET dir == LocalPath(st[i])
         branch == st[i].branch
     IN \E res \in (IF CanPush(disk, dir, branch) THEN PushResults
                                                  ELSE PushResults \ {"ok"}) :
          LET pushed == res = "ok" /\ disk[dir].ahead > 0 IN
            /\ st' = [st EXCEPT ![i] =
                        AfterStep([st[i] EXCEPT !.push_result = res],
                                  "push", res = "ok", res # "ok")]
            /\ repo' = IF pushed
                         THEN [repo EXCEPT ![branch] =
                                 [file |-> disk[dir].head,
                                  commits |-> @.commits + disk[dir].ahead]]
                         ELSE repo
            /\ disk' = IF pushed
                         THEN [disk EXCEPT ![dir].ahead = 0,
                                           ![dir].at = repo'[branch].commits]
                         ELSE disk
  /\ UNCHANGED <<store, kv_version, call, mapping, notifier>>

(* --------------------------- branch lookup ----------------------------- *)
\* One call of get_git_branch_from_env by the publication of a workflow:
\* RD_OPTION_ENV as the job passes it, and the branch returned.
Envs ==
  {"dev", "Dev", "DEV", "dEv", "uat", "Uat", "UAT", "uAT",
   "prod", "Prod", "PROD", "pROD", "staging", "Staging", "STAGING",
   "qa", "QA", "ct-prod", "CT-PROD", "production", "Production",
   "", "prod ", "ct-dev"}

NewMapping(wf, env) == [wf |-> wf, env |-> env, branch |-> "", done |-> FALSE]

NoMapping == NewMapping("", "")

BranchLookup ==
  /\ mapping.wf # "" /\ ~mapping.done
  /\ mapping' = [mapping EXCEPT !.branch = BranchFor(mapping.wf, mapping.env),
                                !.done = TRUE]
  /\ UNCHANGED <<store, kv_version, st, call, repo, notifier, disk>>

(* ------------------------------ notifier ------------------------------- *)
\* SlackNotifier.send: the notifier as constructed (whether a channel id
\* was given, max_retries), the loop variable, the log of delivery attempts
\* and sleeps, and how send ended ("dict", "None" or "NotificationError").
DefaultMaxRetries == 3

\* time.sleep(2)
RetryDelay == 2

\* what chat_postMessage does: a response with ok true or false, a
\* SlackApiError with its error code, or another exception
PostOutcomes ==
  {"ok", "not_ok", "ratelimited", "channel_not_found", "not_in_channel", "exc"}

\* the notifier if every failure were retried
NoRetryErrors_none == {}

\* `if e.response["error"] in ["channel_not_found", "not_in_channel"]: break`
NoRetryErrors == {"channel_not_found", "not_in_channel"}

NewNotifier(channel_id, max_retries) ==
  [pc |-> "send", channel_id |-> channel_id, max_retries |-> max_retries,
   attempt |-> 0, log |-> << >>, result |-> ""]

NoNotifier == NewNotifier(FALSE, 0)

Posted(outcome) == [ev |-> "post", outcome |-> outcome, secs |-> 0]

Slept(secs) == [ev |-> "sleep", outcome |-> "", secs |-> secs]

\* the statements after the loop
SendRaises(n) == [n EXCEPT !.pc = "done", !.result = "NotificationError"]

\* send up to the first pass of the loop
SendBegin ==
  /\ notifier.pc = "send"
  /\ notifier' =
       IF ~notifier.channel_id
         THEN [notifier EXCEPT !.pc = "done", !.result = "None"]
       ELSE IF notifier.max_retries >= 1
         THEN [notifier EXCEPT !.pc = "post", !.attempt = 1]
       ELSE SendRaises(notifier)
  /\ UNCHANGED <<store, kv_version, st, call, repo, mapping, disk>>

\* one pass of the loop up to the sleep
SendAttempt ==
  /\ notifier.pc = "post"
  /\ \E outcome \in PostOutcomes :
       LET n == [notifier EXCEPT !.log = Append(@, Posted(outcome))]
       IN notifier' =
            IF outcome = "ok"
              THEN [n EXCEPT !.pc = "done", !.result = "dict"]
            ELSE IF outcome \in NoRetryErrors
              THEN SendRaises(n)
            ELSE IF n.attempt < n.max_retries
              THEN [n EXCEPT !.pc = "sleep"]
            ELSE SendRaises(n)
  /\ UNCHANGED <<store, kv_version, st, call, repo, mapping, disk>>

\* the sleep before the next pass
SendSleep ==
  /\ notifier.pc = "sleep"
  /\ notifier' = [notifier EXCEPT !.pc = "post", !.attempt = @ + 1,
                                  !.log = Append(@, Slept(RetryDelay))]
  /\ UNCHANGED <<store, kv_version, st, call, repo, mapping, disk>>

(* ------------------------- key-entry workflow -------------------------- *)
\* input-vault-key.py: main() checks under the action "create" that the
\* secret does not exist, builds the data of the approval job from the
\* keys asked for, renders the job, imports it to the job system and
\* notifies.  context_action is RD_OPTION_ACTION, keys the names parsed
\* from RD_OPTION_VAULTKEY, work the rendered job file.
InputActions == {"create", "update"}

\* the except clauses of main(): the exit code for the exception raised
InputExitFor(exc) ==
  CASE exc \in {"TemplateRenderError", "RundeckAPIError", "ConfigurationError"} -> 1
    [] exc = "NotificationError" -> 0
    [] OTHER -> 1

\* a run that leaves main() through an except clause
InputRaised(r, exc) == [r EXCEPT !.pc = "exit", !.exit_code = InputExitFor(exc)]

\* main() up to the check of the action: configuration is loaded, the two
\* clients are constructed
InputMain(i) ==
  /\ st[i].pc = "main"
  /\ st[i].wf = "input"
  /\ MayStart(i)
  /\ st' = [st EXCEPT ![i].pc = IF st[i].context_action = "create"
                                   THEN "precheck" ELSE "job_data",
                      ![i].store0 = store]
  /\ UNCHANGED <<store, kv_version, rest>>

\* the check if the path were probed by writing an empty bundle to it
ExistenceCheck_byWrite(s, kv, path) ==
  {[method |-> "POST", resp |-> o.resp, store |-> o.store] :
     o \in StorePost(s, kv, path, EmptyDict)}

\* `existing_secret = vault_client.read_secret(config.vault.path)`: the
\* request, its answer and the store after it
ExistenceCheck(s, kv, path) ==
  {[method |-> "GET", resp |-> r, store |-> s] : r \in StoreGet(s, kv, path)}

\* the check if a secret that is there let the run go on
AfterPrecheck_ignoreExisting(r, out) ==
  IF out.raised THEN InputRaised(r, "VaultAPIError")
                ELSE [r EXCEPT !.pc = "job_data"]

\* after the read under "create": a VaultAPIError, the one of a secret
\* that is not there included, leaves main() through `except Exception`;
\* a read that returned is followed by `return 1`
AfterPrecheck(r, out) ==
  IF out.raised THEN InputRaised(r, "VaultAPIError")
                ELSE [r EXCEPT !.pc = "exit", !.exit_code = 1]

InputPrecheck(i) ==
  /\ st[i].pc = "precheck"
  /\ \E c \in ExistenceCheck(store, kv_version, st[i].vault_path) :
       LET out == read_secret(kv_version, st[i].vault_path, c.resp)
           reqs == Sent(i, c.method, st[i].vault_path, EmptyDict, c.resp)
       IN /\ store' = c.store
          /\ st' = [st EXCEPT ![i] = AfterPrecheck([st[i] EXCEPT !.reqs = reqs], out)]
  /\ UNCHANGED <<kv_version, rest>>

\* generate_job_data: ConfigurationError without a key
InputJobData(i) ==
  /\ st[i].pc = "job_data"
  /\ st' = [st EXCEPT ![i] =
              IF st[i].keys = {} THEN InputRaised(st[i], "ConfigurationError")
                                 ELSE [st[i] EXCEPT !.pc = "render_job"]]
  /\ UNCHANGED <<store, kv_version, rest>>

\* a step of main() that the environment lets succeed or fail
InputStep(r, step, ok, exc, next) ==
  LET logged == [r EXCEPT !.steps = Append(@, [step |-> step, ok |-> ok,
                                               fault |-> ~ok])]
  IN IF ok THEN [logged EXCEPT !.pc = next] ELSE InputRaised(logged, exc)

\* renderer.render_to_file("vault-value.j2", job_data, output_file)
InputRender(i) ==
  /\ st[i].pc = "render_job"
  /\ \E ok \in BOOLEAN :
       LET r == IF ok THEN [st[i] EXCEPT !.work =
                              Render("", st[i].context_action, st[i].keys)]
                      ELSE st[i]
       IN st' = [st EXCEPT ![i] =
                   InputStep(r, "render", ok, "TemplateRenderError", "import_job")]
  /\ UNCHANGED <<store, kv_version, rest>>

\* rundeck.import_job(output_file) and get_job_permalink
InputImport(i) ==
  /\ st[i].pc = "import_job"
  /\ \E ok \in BOOLEAN :
       st' = [st EXCEPT ![i] =
                InputStep([st[i] EXCEPT !.imported = ok], "import", ok,
                          "RundeckAPIError", "notify")]
  /\ UNCHANGED <<store, kv_version, rest>>

\* `if config.slack.enabled`: SlackNotifier(webhook_url=...) has no channel
\* id and the default max_retries
InputNotify(i) ==
  /\ st[i].pc = "notify"
  /\ IF st[i].slack_enabled
       THEN /\ notifier' = NewNotifier(FALSE, DefaultMaxRetries)
            /\ st' = [st EXCEPT ![i].pc = "sending"]
       ELSE /\ notifier' = notifier
            /\ st' = [st EXCEPT ![i].pc = "exit", ![i].exit_code = 0]
  /\ UNCHANGED <<store, kv_version, call, repo, mapping, disk>>

\* notifier.send(message) of the run
InputSend(i) ==
  /\ st[i].pc = "sending"
  /\ SendBegin

\* notifier.send(message) has ended: `return 0`, or the except clause of
\* NotificationError
InputNotified(i) ==
  /\ st[i].pc = "sending"
  /\ notifier.pc = "done"
  /\ LET r == [st[i] EXCEPT !.steps =
                 Append(@, [step |-> "notify", ok |-> notifier.result = "dict",
                            fault |-> notifier.result # "dict"])]
     IN st' = [st EXCEPT ![i] =
                 IF notifier.result = "NotificationError"
                   THEN InputRaised(r, "NotificationError")
                   ELSE [r EXCEPT !.pc = "exit", !.exit_code = 0]]
  /\ UNCHANGED <<store, kv_version, rest>>

(* ---------------------------- specifications --------------------------- *)
\* the stores that hold secrets at some of the paths of a run
StoresOn(paths) == UNION {[D -> Bundles] : D \in SUBSET paths}

\* no direct client call, no repository, no branch lookup and no notifier
\* take part in a specification of the Copy or the Delete runs alone
RestIdle ==
  /\ call = NoCall
  /\ repo = NoRepo
  /\ mapping = NoMapping
  /\ notifier = NoNotifier
  /\ disk = NoDisk

\* Copy runs with the same arguments, one after the other
InitCopy ==
  /\ kv_version \in {1, 2}
  /\ \E source_path \in SourcePaths(kv_version), vault_path \in VaultPaths(kv_version),
        overwrite \in BOOLEAN :
       /\ store \in StoresOn({source_path, vault_path})
       /\ st = [i \in Procs |-> NewRun("copy", source_path, vault_path, overwrite, FALSE)]
  /\ RestIdle

NextCopy ==
  \E i \in Procs :
    \/ Main(i)
    \/ CopyReadSource(i)
    \/ CopyReadDest(i)
    \/ CopyWrite(i)
    \/ CopyPublish(i)

SpecCopy == InitCopy /\ [][NextCopy]_vars

\* Delete runs with the same arguments, one after the other
InitDelete ==
  /\ kv_version \in {1, 2}
  /\ \E vault_path \in VaultPaths(kv_version), permanent \in BOOLEAN :
       /\ store \in StoresOn({vault_path})
       /\ st = [i \in Procs |-> NewRun("delete", NoPath, vault_path, FALSE, permanent)]
  /\ RestIdle

NextDelete ==
  \E i \in Procs :
    \/ Main(i)
    \/ DeleteRead(i)
    \/ DeleteCall(i)
    \/ DeletePublish(i)

SpecDelete == InitDelete /\ [][NextDelete]_vars

\* one direct call of a client method on a store with secrets at some of
\* the paths, for either KV version
InitClient ==
  /\ kv_version \in {1, 2}
  /\ \E op \in ClientOps, path \in VaultPaths(kv_version) :
       /\ store \in StoresOn({path})
       /\ \E data \in (IF op = "write_secret" THEN Bundles ELSE {EmptyDict}) :
            call = NewCall(op, path, data)
  /\ st = [i \in Procs |-> NewRun("", NoPath, NoPath, FALSE, FALSE)]
  /\ repo = NoRepo
  /\ mapping = NoMapping
  /\ notifier = NoNotifier
  /\ disk = NoDisk

NextClient ==
  \/ ClientRead
  \/ ClientWrite
  \/ ClientDeleteSecret
  \/ ClientDeleteMetadata

SpecClient == InitClient /\ [][NextClient]_vars

\* a caller writes a bundle and reads it back, then writes another bundle
\* and reads that back, on one client and one path
Todo(op, data) == [op |-> op, data |-> data]

InitTrip ==
  /\ kv_version \in {1, 2}
  /\ \E path \in VaultPaths(kv_version), b \in Bundles, b2 \in Bundles :
       /\ store \in StoresOn({path})
       /\ call = [NewCall("write_secret", path, b)
                   EXCEPT !.todo = <<Todo("read_secret", EmptyDict),
                                     Todo("write_secret", b2),
                                     Todo("read_secret", EmptyDict)>>]
  /\ st = [i \in Procs |-> NewRun("", NoPath, NoPath, FALSE, FALSE)]
  /\ repo = NoRepo
  /\ mapping = NoMapping
  /\ notifier = NoNotifier
  /\ disk = NoDisk

NextTrip ==
  \/ ClientWrite
  \/ ClientRead
  \/ ClientNext

SpecTrip == InitTrip /\ [][NextTrip]_vars

\* environment names of the runs that publish
PublishEnvs == {"dev", "PROD"}

\* Copy or Delete runs as main() starts them (a KV v1 client, overwrite and
\* permanent left at their defaults), one after the other with the same
\* arguments, publishing to a repository without input.yaml
InitGit ==
  /\ kv_version = 1
  /\ \E wf \in {"copy", "delete"}, env \in PublishEnvs :
       LET source_path == IF wf = "copy" THEN <<"gke", "src">> ELSE NoPath
           vault_path == <<"gke", "app">>
       IN /\ store \in StoresOn({source_path, vault_path} \ {NoPath})
          /\ st = [i \in Procs |->
                     [NewRun(wf, source_path, vault_path, FALSE, FALSE)
                        EXCEPT !.env = env]]
  /\ repo = NewRepo
  /\ call = NoCall
  /\ mapping = NoMapping
  /\ notifier = NoNotifier
  /\ disk = NoDisk

NextGit ==
  \E i \in Procs :
    \/ Main(i)
    \/ CopyReadSource(i)
    \/ CopyReadDest(i)
    \/ CopyWrite(i)
    \/ DeleteRead(i)
    \/ DeleteCall(i)
    \/ PublishBegin(i)
    \/ GitClone(i)
    \/ RenderToFile(i)
    \/ GitAdd(i)
    \/ GitCommit(i)
    \/ GitPush(i)

SpecGit == InitGit /\ [][NextGit]_vars

\* the branch lookup of the three publishing scripts on every environment
\* name
InitBranch ==
  /\ \E wf \in {"copy", "delete", "value"}, env \in Envs :
       mapping = NewMapping(wf, env)
  /\ kv_version = 1
  /\ store = << >>
  /\ st = [i \in Procs |-> NewRun("", NoPath, NoPath, FALSE, FALSE)]
  /\ call = NoCall
  /\ repo = NoRepo
  /\ notifier = NoNotifier
  /\ disk = NoDisk

NextBranch == BranchLookup

SpecBranch == InitBranch /\ [][NextBranch]_vars

\* one send of a notifier constructed with or without a channel id and
\* with max_retries up to the default
InitNotify ==
  /\ \E channel_id \in BOOLEAN, max_retries \in 0..DefaultMaxRetries :
       notifier = NewNotifier(channel_id, max_retries)
  /\ disk = NoDisk
  /\ kv_version = 1
  /\ store = << >>
  /\ st = [i \in Procs |-> NewRun("", NoPath, NoPath, FALSE, FALSE)]
  /\ call = NoCall
  /\ repo = NoRepo
  /\ mapping = NoMapping

NextNotify ==
  \/ SendBegin
  \/ SendAttempt
  \/ SendSleep

SpecNotify == InitNotify /\ [][NextNotify]_vars

\* key-entry runs with the same options, one after the other, on a store
\* that has the secret or not
InitInput ==
  /\ kv_version = 1
  /\ \E action \in InputActions, keys \in SUBSET Keys, slack_enabled \in BOOLEAN :
       LET vault_path == <<"gke", "app">>
       IN /\ store \in StoresOn({vault_path})
          /\ st = [i \in Procs |->
                     [NewRun("input", NoPath, vault_path, FALSE, FALSE)
                        EXCEPT !.context_action = action, !.keys = keys,
                               !.slack_enabled = slack_enabled]]
  /\ RestIdle

NextInput ==
  \E i \in Procs :
    \/ InputMain(i)
    \/ InputPrecheck(i)
    \/ InputJobData(i)
    \/ InputRender(i)
    \/ InputImport(i)
    \/ InputNotify(i)
    \/ InputSend(i)
    \/ InputNotified(i)

SpecInput == InitInput /\ [][NextInput]_vars

\* Copy, Delete or value-entry runs from the start of main(), on each of
\* the configurations, one after the other with the same options,
\* publishing to a repository without input.yaml
InitMain ==
  /\ kv_version = 1
  /\ \E wf \in {"copy", "delete", "value"}, cfg \in Configs :
       LET source_path == IF wf = "copy" THEN <<"gke", "src">> ELSE NoPath
       IN /\ store \in StoresOn({source_path, ConfigPath(cfg)} \ {NoPath})
          /\ \E keys \in (IF wf = "value" THEN SUBSET Keys ELSE {{}}),
                action \in (IF wf = "value" THEN ValueActions ELSE {""}),
                skip_yaml \in (IF wf = "value" THEN BOOLEAN ELSE {FALSE}) :
               \E options \in UNION {[D -> Vals] : D \in SUBSET keys} :
                 st = [i \in Procs |->
                         [NewRun(wf, source_path, NoPath, FALSE, FALSE)
                            EXCEPT !.env = "dev", !.cfg = cfg, !.keys = keys,
                                   !.context_action = action,
                                   !.skip_yaml = skip_yaml, !.options = options,
                                   !.data = gather_secret_data(keys, options)]]
  /\ repo = NewRepo
  /\ call = NoCall
  /\ mapping = NoMapping
  /\ notifier = NoNotifier
  /\ disk = NoDisk

NextMain ==
  \E i \in Procs :
    \/ ConfigMain(i)
    \/ CopyReadSource(i)
    \/ CopyReadDest(i)
    \/ CopyWrite(i)
    \/ DeleteRead(i)
    \/ DeleteCall(i)
    \/ ValueWrite(i)
    \/ PublishBegin(i)
    \/ GitClone(i)
    \/ RenderToFile(i)
    \/ GitAdd(i)
    \/ GitCommit(i)
    \/ GitPush(i)

SpecMain == InitMain /\ [][NextMain]_vars

\* the source of the Copy run i among overlapping runs: consecutive runs
\* copy from different sources
RaceSource(i) == IF i % 2 = 1 THEN <<"gke", "src">> ELSE <<"gke", "src2">>

\* what the sources of overlapping Copy runs hold: some keys, all with
\* the first value
RaceSourceBundles == UNION {[D -> {1}] : D \in SUBSET Keys \ {{}}}

\* overlapping runs on one path: Copy runs as main() starts them, with
\* different sources and the same destination, which may hold a secret, or
\* Delete runs of the same path
InitRace ==
  /\ kv_version = 1
  /\ \E wf \in {"copy", "delete"} :
       LET vault_path == <<"gke", "app">>
           sources == IF wf = "copy" THEN {RaceSource(i) : i \in Procs} ELSE {}
       IN /\ \E held \in [sources -> RaceSourceBundles],
                dest \in StoresOn({vault_path}) :
               store = [q \in sources \cup DOMAIN dest |->
                          IF q \in sources THEN held[q] ELSE dest[q]]
          /\ st = [i \in Procs |->
                     NewRun(wf, IF wf = "copy" THEN RaceSource(i) ELSE NoPath,
                            vault_path, FALSE, FALSE)]
  /\ RestIdle

NextRace ==
  \E i \in Procs :
    \/ Start(i)
    \/ CopyReadSource(i)
    \/ CopyReadDest(i)
    \/ CopyWrite(i)
    \/ CopyPublish(i)
    \/ DeleteRead(i)
    \/ DeleteCall(i)
    \/ DeletePublish(i)

SpecRace == InitRace /\ [][NextRace]_vars

\* what a job that was killed, or another program, has left at the local
\* path of a run: nothing, or a directory that is not a checkout
LeftBehind(r) == {NoDisk, [dir \in {LocalPath(r)} |-> PlainDir(NoFile, TRUE)]}

\* the execution id the job system gives to run i
RundeckExecId(i) == ToString(i)

\* the keys run i has for the manifest: consecutive runs have different ones
WorkKeys(i) == IF i % 2 = 1 THEN Keys ELSE {}

\* publications that overlap: runs of one workflow that the job system
\* has started for the same job, each past its store steps, with or
\* without RD_JOB_EXECID in its environment; the first two start whenever
\* the job system starts them, a later run when the one before has ended
InitWork ==
  /\ kv_version = 1
  /\ store = << >>
  /\ \E wf \in {"copy", "delete", "value"},
        given \in [Procs -> BOOLEAN] :
       /\ st = [i \in Procs |->
                  [NewRun(wf, NoPath, <<"gke", "app">>, FALSE, FALSE)
                     EXCEPT !.pc = "publish", !.env = "dev",
                            !.returned = "value",
                            !.action = "create",
                            !.context_action = "create",
                            !.result_data = [k \in WorkKeys(i) |-> 1],
                            !.deleted_keys = WorkKeys(i),
                            !.keys = WorkKeys(i),
                            !.RD_JOB_ID = "job",
                            !.RD_JOB_EXECID = IF given[i] THEN RundeckExecId(i)
                                                          ELSE "unset"]]
       /\ disk \in LeftBehind(st[1])
  /\ repo = NewRepo
  /\ call = NoCall
  /\ mapping = NoMapping
  /\ notifier = NoNotifier

\* the publication of run i begins
WorkBegin(i) ==
  /\ IF i <= 2 THEN TRUE ELSE st[i - 1].pc = "exit"
  /\ PublishBegin(i)

NextWork ==
  \E i \in Procs :
    \/ WorkBegin(i)
    \/ GitClone(i)
    \/ RenderToFile(i)
    \/ GitAdd(i)
    \/ GitCommit(i)
    \/ GitPush(i)

SpecWork == InitWork /\ [][NextWork]_vars

Init == InitCopy \/ InitDelete

Next == NextCopy \/ NextDelete

Spec == Init /\ [][Next]_vars

(* ------------------------------- properties ---------------------------- *)
Started(i) == st[i].pc # "main"

\* the run that started last
Latest(i) == Started(i) /\ \A j \in Procs : j > i => ~Started(j)

\* the requests of run i that change the store
Mutations(i) ==
  {n \in DOMAIN st[i].reqs : st[i].reqs[n].method \in {"POST", "DELETE"}}

\* the bundle that the write request of a Copy run carries
WrittenBundle(i) == StoredOf(kv_version, st[i].reqs[3].body)

\* the Copy run i returned after reading an existing destination with
\* overwrite off
MergedCopy(i) ==
  /\ st[i].wf = "copy"
  /\ st[i].returned = "value"
  /\ ~st[i].overwrite
  /\ st[i].reqs[2].status \in OkStatuses

\* C1: a Copy with overwrite=false that read an existing destination wrote
\* a bundle whose keys are keys(dest) \cup keys(source), with the source's
\* value on every key of the source and the destination's value on every
\* other key, to the destination path, and reports the action "add"
C1_MergeSourceWins ==
  \A i \in Procs :
    MergedCopy(i) =>
      LET dest == st[i].store0[st[i].vault_path]
          source == st[i].store0[st[i].source_path]
          final == WrittenBundle(i)
      IN /\ st[i].reqs[3].method = "POST"
         /\ st[i].reqs[3].path = st[i].vault_path
         /\ DOMAIN final = DOMAIN dest \cup DOMAIN source
         /\ \A k \in DOMAIN source : final[k] = source[k]
         /\ \A k \in DOMAIN dest \ DOMAIN source : final[k] = dest[k]
         /\ Latest(i) => store[st[i].vault_path] = final
         /\ st[i].action = "add"

\* a merge in which a key of both bundles changes its value and a key of
\* the destination alone is kept
C1_Witness ==
  \E i \in Procs :
    /\ MergedCopy(i)
    /\ \E k \in DOMAIN st[i].source_data \cap DOMAIN st[i].existing_dest_data :
         st[i].source_data[k] # st[i].existing_dest_data[k]
    /\ DOMAIN st[i].existing_dest_data \ DOMAIN st[i].source_data # {}

\* the Copy run i returned with overwrite on, or after the store answered
\* the destination read with 404
CreatedCopy(i) ==
  /\ st[i].wf = "copy"
  /\ st[i].returned = "value"
  /\ st[i].overwrite \/ st[i].reqs[2].status = "404"

\* C2: a Copy with overwrite=true, or whose destination read was answered
\* 404, wrote exactly the source bundle to the destination path, so that no
\* key of the destination alone is left, and reports the action "create"
C2_CreateWritesSource ==
  \A i \in Procs :
    CreatedCopy(i) =>
      LET source == st[i].store0[st[i].source_path] IN
        /\ st[i].reqs[3].method = "POST"
        /\ st[i].reqs[3].path = st[i].vault_path
        /\ WrittenBundle(i) = source
        /\ Latest(i) => store[st[i].vault_path] = source
        /\ st[i].action = "create"

\* an overwrite of a destination that held a key the source does not have
C2_Witness ==
  \E i \in Procs :
    /\ CreatedCopy(i)
    /\ st[i].overwrite
    /\ st[i].vault_path \in DOMAIN st[i].store0
    /\ DOMAIN st[i].store0[st[i].vault_path] \ DOMAIN st[i].source_data # {}

\* C3: during and after a Copy run, whatever its outcome, the store is
\* either as the run found it or as the run found it with the computed
\* final bundle at the destination path; the source bundle is as the run
\* found it
C3_NoPartialWrite ==
  \A i \in Procs :
    (st[i].wf = "copy" /\ Latest(i)) =>
      /\ \/ store = st[i].store0
         \/ /\ Mutations(i) # {}
            /\ store = Put(st[i].store0, st[i].vault_path, st[i].final_data)
      /\ st[i].source_path \in DOMAIN store <=> st[i].source_path \in DOMAIN st[i].store0
      /\ st[i].source_path \in DOMAIN store =>
           store[st[i].source_path] = st[i].store0[st[i].source_path]

\* a Copy that failed on its write although the store had applied the write
C3_Witness ==
  \E i \in Procs :
    /\ st[i].wf = "copy"
    /\ Latest(i)
    /\ st[i].pc = "exit"
    /\ st[i].returned = "None"
    /\ Len(st[i].reqs) = 3
    /\ store # st[i].store0

\* the answers by which the store reports its state, as opposed to
\* failures of the store or of the transport
Truthful == OkStatuses \cup {"404"}

\* the position of the destination read (Copy) or of the read before
\* deletion (Delete) among the requests of a run
ReadIndex(i) == IF st[i].wf = "copy" THEN 2 ELSE 1

\* C4: when the destination read of Copy, or the read before deletion of
\* Delete, fails with anything but an HTTP 404 (another status, a timeout,
\* a connection error), it is not taken as "not found", whatever the path:
\* the run sends no write and no delete request, and fails
C4_OnlyHttp404IsNotFound ==
  \A i \in Procs :
    (/\ Len(st[i].reqs) >= ReadIndex(i)
     /\ st[i].reqs[ReadIndex(i)].status \notin Truthful) =>
      /\ Mutations(i) = {}
      /\ st[i].pc = "exit"
      /\ st[i].returned = "None"
      /\ st[i].exit_code # 0

\* C5: a Copy whose source exists with no keys fails with exit code 1 after
\* its first request, sends no write, and leaves the store as it found it
C5_EmptySourceFails ==
  \A i \in Procs :
    (/\ st[i].wf = "copy"
     /\ Len(st[i].reqs) >= 1
     /\ st[i].source_path \in DOMAIN st[i].store0
     /\ st[i].store0[st[i].source_path] = EmptyDict) =>
      /\ st[i].pc = "exit"
      /\ st[i].returned = "None"
      /\ st[i].exit_code = 1
      /\ Len(st[i].reqs) = 1
      /\ Latest(i) => store = st[i].store0

\* the empty source was read with a 200 answer and the destination holds keys
C5_Witness ==
  \E i \in Procs :
    /\ st[i].wf = "copy"
    /\ st[i].pc = "exit"
    /\ st[i].reqs[1].status = "200"
    /\ st[i].source_path \in DOMAIN st[i].store0
    /\ st[i].store0[st[i].source_path] = EmptyDict
    /\ st[i].vault_path \in DOMAIN store
    /\ store[st[i].vault_path] # EmptyDict

\* C6: once a Copy with overwrite=true has returned, the destination holds
\* exactly the source bundle, the source is as it was before the first run,
\* and both stay so through every further run with the same arguments
C6_OverwriteIdempotent ==
  \A i \in Procs :
    (st[i].wf = "copy" /\ st[i].overwrite /\ st[i].returned = "value") =>
      /\ store[st[i].vault_path] = st[1].store0[st[i].source_path]
      /\ store[st[i].source_path] = st[1].store0[st[i].source_path]

\* two overwriting runs have returned on a destination that first held
\* another bundle, with a key the source does not have
C6_Witness ==
  /\ st[1].wf = "copy" /\ st[1].overwrite
  /\ st[1].returned = "value" /\ st[2].returned = "value"
  /\ st[2].pc = "exit"
  /\ st[1].vault_path \in DOMAIN st[1].store0
  /\ DOMAIN st[1].store0[st[1].vault_path] \ DOMAIN st[1].source_data # {}
  /\ st[2].store0[st[2].vault_path] = st[2].source_data

\* C7: the keys that Copy hands to manifest generation are the keys of the
\* source bundle, and the action is "add" when the destination read was
\* answered with the bundle and overwrite is off, "create" otherwise
C7_ManifestFromSource ==
  \A i \in Procs :
    (st[i].wf = "copy" /\ st[i].yaml_called) =>
      /\ st[i].keys = DOMAIN st[i].store0[st[i].source_path]
      /\ st[i].context_action =
           IF st[i].reqs[2].status \in OkStatuses /\ ~st[i].overwrite
             THEN "add" ELSE "create"

\* a merge into a destination that holds keys the source does not have
C7_Witness ==
  \E i \in Procs :
    /\ MergedCopy(i)
    /\ st[i].yaml_called
    /\ st[i].context_action = "add"
    /\ DOMAIN WrittenBundle(i) \ st[i].keys # {}

\* C8: a Delete whose read before deletion was answered 404 returns the
\* empty key list without a delete request and exits with code 0
C8_NotFoundIsSuccess ==
  \A i \in Procs :
    (/\ st[i].wf = "delete"
     /\ Len(st[i].reqs) >= 1
     /\ st[i].reqs[1].status = "404") =>
      /\ st[i].returned = "value"
      /\ st[i].deleted_keys = {}
      /\ Len(st[i].reqs) = 1
      /\ st[i].pc \in {"publish", "exit"}
      /\ st[i].pc = "exit" => st[i].exit_code = 0 /\ st[i].keys = {}

\* a Delete on an absent path has exited
C8_Witness ==
  \E i \in Procs :
    /\ st[i].wf = "delete"
    /\ st[i].pc = "exit"
    /\ st[i].reqs[1].status = "404"
    /\ st[i].vault_path \notin DOMAIN st[i].store0
    /\ st[i].exit_code = 0

\* every request of run i was answered by the store according to its state
NoFault(i) == \A n \in DOMAIN st[i].reqs : st[i].reqs[n].status \in Truthful

\* C9: on every path that holds a secret, with a store that answers every
\* request, the first Delete exits 0 with the keys the secret had, and the
\* Delete that follows it exits 0 with the empty key list
C9_DeleteIdempotent ==
  (/\ st[1].wf = "delete"
   /\ st[1].pc = "exit"
   /\ NoFault(1)
   /\ st[1].vault_path \in DOMAIN st[1].store0) =>
    /\ st[1].returned = "value"
    /\ st[1].exit_code = 0
    /\ st[1].keys = DOMAIN st[1].store0[st[1].vault_path]
    /\ (st[2].pc = "exit" /\ NoFault(2)) =>
         /\ st[2].returned = "value"
         /\ st[2].exit_code = 0
         /\ st[2].keys = {}

\* C10: after a read before deletion that was answered with the bundle,
\* Delete sends one DELETE request, to the metadata path when permanent is
\* set on a KV v2 client and to the vault path in every other case; when it
\* returns a list it is the keys of the bundle, and manifest generation gets
\* these keys with the action "delete"
C10_DeleteBranch ==
  \A i \in Procs :
    (/\ st[i].wf = "delete"
     /\ st[i].pc \in {"publish", "exit"}
     /\ st[i].reqs[1].status \in OkStatuses) =>
      /\ Len(st[i].reqs) = 2
      /\ st[i].reqs[2].method = "DELETE"
      /\ IF st[i].permanent /\ kv_version = 2
           THEN st[i].reqs[2].path[2] = "metadata"
           ELSE st[i].reqs[2].path = st[i].vault_path
      /\ st[i].returned = "value" =>
           st[i].deleted_keys = DOMAIN st[i].store0[st[i].vault_path]
      /\ st[i].yaml_called =>
           /\ st[i].keys = DOMAIN st[i].store0[st[i].vault_path]
           /\ st[i].context_action = "delete"

\* a permanent Delete of a secret with all the keys on a KV v2 client
C10_Witness ==
  \E i \in Procs :
    /\ st[i].wf = "delete"
    /\ st[i].pc = "exit"
    /\ kv_version = 2
    /\ st[i].permanent
    /\ st[i].returned = "value"
    /\ Len(st[i].reqs) = 2
    /\ st[i].reqs[2].path[2] = "metadata"
    /\ st[i].keys = Keys
    /\ st[i].context_action = "delete"

(* -------------------------- client contracts --------------------------- *)
\* the one request of a finished direct call
CallDone(op) == call.op = op /\ call.done

CallStatus == call.reqs[1].status

\* C11: delete_secret returns False without raising when the store answers
\* 404, returns True on 200 and 204, and raises VaultAPIError on every
\* other status and on every transport failure.
C11_DeleteSecretContract ==
  CallDone("delete_secret") =>
    /\ Len(call.reqs) = 1
    /\ CallStatus = "404" => ~call.out.raised /\ call.out.value = FALSE
    /\ CallStatus \in OkStatuses => ~call.out.raised /\ call.out.value = TRUE
    /\ CallStatus \notin OkStatuses \cup {"404"} => call.out.raised

\* C12: delete_metadata on a KV v1 client raises the error "only
\* available for KV v2" before any request is sent, and the store is as
\* the call found it.
C12_MetadataV1NoRequest ==
  (CallDone("delete_metadata") /\ kv_version = 1) =>
    /\ call.out.raised
    /\ call.out.msg = <<"delete_metadata is only available for KV v2">>
    /\ call.reqs = << >>
    /\ store = call.store0

\* a KV v1 client was asked to delete the metadata of a secret that exists
C12_Witness ==
  /\ CallDone("delete_metadata") /\ kv_version = 1
  /\ call.path \in DOMAIN store

\* C13: when the store answers a read with HTTP 404, read_secret raises
\* the error "Secret not found at path: <path>", which the test of Copy
\* and Delete takes as not found, and not the generic "Vault API error",
\* for both KV versions and every path.
C13_Read404IsNotFound ==
  (CallDone("read_secret") /\ CallStatus = "404") =>
    /\ call.out.raised
    /\ call.out.msg = <<"Secret not found at path: ">> \o call.path
    /\ IsNotFoundText(call.out.msg)

\* a read of a path that holds no secret was answered 404
C13_Witness ==
  /\ CallDone("read_secret") /\ CallStatus = "404"
  /\ call.path \notin DOMAIN store

\* C14: a failed read tells three outcomes apart by the error value: not
\* found for 404, unavailable for a timeout or a connection error, and for
\* every other status outside 2xx a store error that carries the body of
\* the response.
C14_ReadFailureKinds ==
  (CallDone("read_secret") /\ call.out.raised) =>
    /\ CallStatus = "404" => Head(call.out.msg) = "Secret not found at path: "
    /\ CallStatus = "exc" => Head(call.out.msg) = "Failed to read from Vault: "
    /\ CallStatus \notin {"404", "exc"} =>
         /\ Head(call.out.msg) = "Vault API error: "
         /\ \A n \in DOMAIN call.text :
              \E m \in DOMAIN call.out.msg : call.out.msg[m] = call.text[n]

\* C15: write_secret sends one POST whose payload is {"data": bundle} on
\* a KV v2 client and the bundle itself on a KV v1 client; it returns True
\* exactly when the status is 200 or 204 and raises VaultAPIError, never
\* returning a failure value, for every other status, timeout or
\* connection error.
C15_WriteContract ==
  CallDone("write_secret") =>
    /\ Len(call.reqs) = 1
    /\ call.reqs[1].method = "POST" /\ call.reqs[1].path = call.path
    /\ call.reqs[1].body =
         (IF kv_version = 2 THEN [data |-> call.data] ELSE call.data)
    /\ call.out.raised <=> CallStatus \notin OkStatuses
    /\ ~call.out.raised => call.out.value = TRUE

\* a KV v2 write of a bundle with keys was answered 200 and stored
C15_Witness ==
  /\ CallDone("write_secret") /\ kv_version = 2
  /\ call.data # EmptyDict /\ CallStatus = "200"
  /\ call.path \in DOMAIN store /\ store[call.path] = call.data

(* ------------------------ manifest publication ------------------------ *)
\* C16: within one publication the git steps are attempted in the order
\* clone, render, add, commit, push, each at most once; a step is attempted
\* only if every earlier step succeeded, and a failed step ends the
\* publication: no later step, no retry, the publication reports False.
C16_GitStepsInOrder ==
  \A i \in Procs :
    LET log == st[i].steps
    IN /\ Len(log) <= 5
       /\ \A n \in DOMAIN log :
            /\ log[n].step = <<"clone", "render", "add", "commit", "push">>[n]
            /\ n < Len(log) => log[n].ok
       /\ (\E n \in DOMAIN log : ~log[n].ok) =>
            st[i].pc = "exit" /\ ~st[i].yaml_generated

\* the first run published with all five steps, the second failed at the
\* commit
C16_Witness ==
  /\ Len(st[1].steps) = 5 /\ st[1].yaml_generated
  /\ Len(st[2].steps) = 4 /\ ~st[2].steps[4].ok /\ st[2].pc = "exit"

\* the publication of run i found the rendered input.yaml equal to the
\* one of the branch and came to the commit
CleanCommit(i) ==
  /\ Len(st[i].steps) >= 4
  /\ st[i].work = st[i].base

\* C17: when the rendered manifest is identical to the one in the branch,
\* commit creates no commit and returns True, the push is still executed,
\* the branch gets no commit, and with a push that the remote accepts the
\* publication returns True; the run exits with code 0.
C17_NoOpCommitSucceeds ==
  \A i \in Procs :
    CleanCommit(i) =>
      /\ st[i].ahead = 0
      /\ ~st[i].steps[4].fault =>
           /\ st[i].steps[4].ok
           /\ st[i].pc = "push" \/ Len(st[i].steps) = 5
      /\ st[i].pc = "exit" =>
           /\ st[i].exit_code = 0
           /\ (\A n \in DOMAIN st[i].steps : ~st[i].steps[n].fault) =>
                st[i].yaml_generated
      /\ repo[st[i].branch].commits =
           Cardinality({j \in Procs : st[j].yaml_generated /\ ~CleanCommit(j)})

\* the second run rendered what the first had pushed, made no commit,
\* pushed and reported success
C17_Witness ==
  /\ st[1].yaml_generated /\ repo[st[1].branch].commits = 1
  /\ CleanCommit(2) /\ st[2].work # NoFile
  /\ Len(st[2].steps) = 5 /\ st[2].yaml_generated /\ st[2].exit_code = 0

\* run i changed the store with its last request and then failed to
\* publish the manifest
MutatedUnpublished(i) ==
  /\ st[i].pc = "exit" /\ st[i].yaml_called /\ ~st[i].yaml_generated
  /\ Mutations(i) # {}

\* C18: when clone, render, commit or push fails (a rejected push and a
\* per-ref push error included) after the write or the delete succeeded,
\* the run sends no further request to the store, the mutation stays in
\* place, and the exit code is 0.
C18_NoRollbackOnGitFailure ==
  \A i \in Procs :
    MutatedUnpublished(i) =>
      LET last == Len(st[i].reqs)
      IN /\ Mutations(i) = {last}
         /\ st[i].reqs[last].status \in OkStatuses
         /\ st[i].reqs[last].path = st[i].vault_path
         /\ Latest(i) =>
              IF st[i].wf = "copy"
                THEN /\ st[i].vault_path \in DOMAIN store
                     /\ store[st[i].vault_path] = st[i].final_data
                ELSE st[i].vault_path \notin DOMAIN store
         /\ st[i].exit_code = 0

\* a Copy wrote its bundle and the push came back with a ref error
C18_Witness ==
  \E i \in Procs :
    /\ MutatedUnpublished(i) /\ Latest(i)
    /\ st[i].wf = "copy" /\ st[i].final_data # EmptyDict
    /\ st[i].push_result = "ref_error"
    /\ st[i].vault_path \in DOMAIN st[i].store0
    /\ store[st[i].vault_path] # st[i].store0[st[i].vault_path]

(* ----------------------------- branch lookup --------------------------- *)
\* C19: the branch of an environment is ct-dev, ct-uat or ct-prod for dev,
\* uat or prod in any letter case and ct-dev for every other name, and it
\* is the same in the Copy, the Delete and the value-entry script.
C19_BranchMapping ==
  mapping.done =>
    /\ mapping.branch \in Branches
    /\ mapping.branch =
         (IF mapping.env \in {"dev", "Dev", "DEV", "dEv"} THEN "ct-dev"
          ELSE IF mapping.env \in {"uat", "Uat", "UAT", "uAT"} THEN "ct-uat"
          ELSE IF mapping.env \in {"prod", "Prod", "PROD", "pROD"} THEN "ct-prod"
          ELSE "ct-dev")
    /\ mapping.branch = get_git_branch_from_env(mapping.env)
    /\ mapping.branch = delete_get_git_branch_from_env(mapping.env)
    /\ mapping.branch = value_get_git_branch_from_env(mapping.env)

\* the value-entry script looked up an upper-case name
C19_Witness ==
  /\ mapping.done /\ mapping.wf = "value"
  /\ mapping.env = "PROD" /\ mapping.branch = "ct-prod"

(* ------------------------------- notifier ------------------------------ *)
\* the delivery attempts in the log of send
Posts == {k \in DOMAIN notifier.log : notifier.log[k].ev = "post"}

\* attempts and sleeps alternate, the log does not end with a sleep, and
\* every sleep is of 2 seconds
SleepsBetweenAttempts ==
  /\ \A k \in DOMAIN notifier.log :
       IF k % 2 = 1
         THEN notifier.log[k].ev = "post"
         ELSE /\ notifier.log[k].ev = "sleep"
              /\ notifier.log[k].secs = 2
              /\ k < Len(notifier.log)

Prechecked(i, statuses) ==
  /\ st[i].wf = "input"
  /\ st[i].context_action = "create"
  /\ Len(st[i].reqs) >= 1
  /\ st[i].reqs[1].status \in statuses

\* C22: a key-entry run under the action "create" whose read of the target
\* path succeeded has stopped with a failure exit code, without rendering
\* the approval job, importing it or notifying
C22_CreateExistingFailsFast ==
  \A i \in Procs :
    Prechecked(i, OkStatuses) =>
      /\ st[i].pc = "exit"
      /\ st[i].exit_code > 0
      /\ st[i].steps = << >>
      /\ st[i].work = NoFile
      /\ ~st[i].imported

C22_Witness ==
  \E i \in Procs :
    /\ Prechecked(i, OkStatuses)
    /\ st[i].store0 # << >>
    /\ st[i].exit_code = 1

\* C23: a key-entry run under the action "create" whose read of the target
\* path was answered with not-found, and whose later steps the environment
\* let succeed, has rendered and imported the approval job and exits with 0
C23_CreateAbsentProceeds ==
  \A i \in Procs :
    (/\ Prechecked(i, {"404"})
     /\ st[i].pc = "exit"
     /\ st[i].keys # {}
     /\ \A n \in DOMAIN st[i].steps :
          st[i].steps[n].step = "notify" \/ st[i].steps[n].ok) =>
      /\ st[i].exit_code = 0
      /\ st[i].work = Render("", "create", st[i].keys)
      /\ st[i].imported

\* C24: a key-entry run sends no request other than a read to the store,
\* and the store stays as the run found it
C24_InputOnlyReads ==
  \A i \in Procs :
    (st[i].wf = "input" /\ Started(i)) =>
      /\ Mutations(i) = {}
      /\ \A n \in DOMAIN st[i].reqs : st[i].reqs[n].method = "GET"
      /\ store = st[i].store0

C24_Witness ==
  \E i \in Procs :
    /\ st[i].wf = "input"
    /\ st[i].pc = "exit"
    /\ Len(st[i].reqs) = 1
    /\ st[i].store0 # << >>

\* the run i was started without a vault token: RD_OPTION_VAULTTOKEN is
\* not set, or the entry VAULT_TOKEN_<ENV> is not there or is empty
MissingToken(i) ==
  st[i].cfg.secrets = "no_token" \/ st[i].cfg.token \in {"missing", "empty"}

\* the run i was started without a vault path: VAULT_PATH is empty, or
\* neither VAULT_PATH nor RD_OPTION_VAULTNAME is set
MissingPath(i) ==
  \/ st[i].cfg.VAULT_PATH = "empty"
  \/ st[i].cfg.VAULT_PATH = "unset" /\ st[i].cfg.VAULTNAME = "unset"

\* C25: a Copy, Delete or value-entry run started without a vault token or
\* without a vault path exits with a failure code and has sent no write and
\* no delete request
C25_ConfigFailsFast ==
  \A i \in Procs :
    (/\ st[i].wf \in {"copy", "delete", "value"}
     /\ Started(i)
     /\ st[i].keys # {} \/ st[i].wf # "value"
     /\ MissingToken(i) \/ MissingPath(i)) =>
      /\ Mutations(i) = {}
      /\ st[i].pc = "exit" => st[i].exit_code > 0

\* nothing but the Git configuration can keep the run i from its manifest:
\* the rest of the configuration is complete, the store answered every
\* request, a Copy found a source with keys, a value-entry run has keys, a
\* method to write with, and no --skip-yaml
OnlyGitInDoubt(i) ==
  /\ st[i].cfg = [CompleteConfig EXCEPT !.git = st[i].cfg.git]
  /\ NoFault(i)
  /\ st[i].wf = "copy" =>
       /\ st[i].source_path \in DOMAIN st[i].store0
       /\ st[i].store0[st[i].source_path] # EmptyDict
  /\ st[i].wf = "value" =>
       st[i].keys # {} /\ st[i].context_action # "add" /\ ~st[i].skip_yaml

\* C26: a Copy, Delete or value-entry run publishes its manifest through
\* the repository (beginning with the clone) when the Git configuration is
\* present, and when it is absent renders the manifest locally, without
\* any git step
C26_ModeFollowsGitConfig ==
  \A i \in Procs :
    (/\ st[i].wf \in {"copy", "delete", "value"}
     /\ st[i].pc = "exit"
     /\ OnlyGitInDoubt(i)) =>
      IF st[i].cfg.git = "set"
        THEN /\ st[i].mode = "git"
             /\ st[i].steps # << >>
             /\ st[i].steps[1].step = "clone"
        ELSE /\ st[i].mode = "legacy"
             /\ st[i].steps = << >>
             /\ st[i].yaml_generated =>
                  st[i].work = Render(st[i].env, st[i].context_action, st[i].keys)

PlanOfReads(i) ==
  LET src == st[i].store0[st[i].source_path]
      dst == st[i].store0[st[i].vault_path]
  IN IF st[i].overwrite \/ st[i].reqs[2].status \notin OkStatuses
       THEN src
       ELSE [k \in DOMAIN dst \cup DOMAIN src |->
               IF k \in DOMAIN src THEN src[k] ELSE dst[k]]

\* C27: a Copy run sends at most one write request, as its third request
\* after the reads of the source and of the destination, to the
\* destination path, with the bundle planned from the two reads of the
\* run; when the write fails the run ends with that single request
C27_OneWritePerCopy ==
  \A i \in Procs :
    st[i].wf = "copy" =>
      /\ Cardinality(Mutations(i)) <= 1
      /\ Len(st[i].reqs) <= 3
      /\ \A n \in Mutations(i) :
           /\ n = 3
           /\ st[i].reqs[1].method = "GET" /\ st[i].reqs[1].path = st[i].source_path
           /\ st[i].reqs[2].method = "GET" /\ st[i].reqs[2].path = st[i].vault_path
           /\ st[i].reqs[n].method = "POST"
           /\ st[i].reqs[n].path = st[i].vault_path
           /\ st[i].reqs[n].body = WritePayload(kv_version, PlanOfReads(i))
           /\ st[i].reqs[n].status \notin OkStatuses =>
                /\ st[i].pc = "exit"
                /\ st[i].returned = "None"
                /\ st[i].exit_code > 0

C27_Witness ==
  \E i \in Procs :
    /\ st[i].wf = "copy"
    /\ ~st[i].overwrite
    /\ Mutations(i) = {3}
    /\ st[i].reqs[2].status \in OkStatuses
    /\ st[i].reqs[3].status \notin OkStatuses
    /\ st[i].pc = "exit"

\* the bundle a Copy run with overwrite off has planned from what it read
PlannedWrite(r) ==
  IF r.dest_exists
    THEN [k \in DOMAIN r.existing_dest_data \cup DOMAIN r.source_data |->
            IF k \in DOMAIN r.source_data THEN r.source_data[k]
                                          ELSE r.existing_dest_data[k]]
    ELSE r.source_data

\* C28: among overlapping Copy runs nothing checks the destination between
\* the read and the write of a run: a write that the store accepts leaves
\* at the destination exactly the bundle the run planned from its own
\* reads, whatever another run has written there since; so when two runs
\* with different sources have both read an existing destination before
\* either wrote, the keys that only the earlier writer brought are lost
C28_LastWriterWins ==
  [][\A i \in Procs :
       (st[i].wf = "copy" /\ st[i].pc = "write" /\ st'[i].pc = "publish") =>
         /\ st[i].vault_path \in DOMAIN store'
         /\ store'[st[i].vault_path] = PlannedWrite(st[i])]_vars

\* both runs have written, from the same reading of the destination, each
\* a bundle that changes it, and a key of the source of one of them is not
\* at the destination
C28_Witness ==
  \E i, j \in Procs :
    /\ i # j
    /\ st[i].wf = "copy" /\ st[j].wf = "copy"
    /\ st[i].source_path # st[j].source_path
    /\ st[i].returned = "value" /\ st[j].returned = "value"
    /\ st[i].dest_exists /\ st[j].dest_exists
    /\ st[i].existing_dest_data = st[j].existing_dest_data
    /\ PlannedWrite(st[i]) # st[i].existing_dest_data
    /\ store[st[j].vault_path] = PlannedWrite(st[j])
    /\ \E k \in DOMAIN st[i].source_data : k \notin DOMAIN store[st[i].vault_path]

\* C29: when two overlapping Delete runs of a path have both read the
\* secret, and the store answered every request, both exit with 0 and
\* report the keys the secret had
C29_OverlappingDeletesSucceed ==
  \A i, j \in Procs :
    (/\ i # j
     /\ st[i].wf = "delete" /\ st[j].wf = "delete"
     /\ st[i].pc = "exit" /\ st[j].pc = "exit"
     /\ NoFault(i) /\ NoFault(j)
     /\ st[i].reqs[1].status \in OkStatuses
     /\ st[j].reqs[1].status \in OkStatuses) =>
      /\ st[i].exit_code = 0
      /\ st[i].returned = "value"
      /\ st[i].keys = DOMAIN st[i].store0[st[i].vault_path]

(* ------------------------- retry of store requests --------------------- *)
\* C31: a client operation whose request the store answered with a 5xx
\* status sends the request again before it reports the failure
C31_RetriedBeforeFailure ==
  (/\ call.done
   /\ call.reqs # << >>
   /\ CallStatus \in FaultStatuses) => Len(call.reqs) > 1

(* ------------------------ write and read back -------------------------- *)
\* the calls the caller has made so far, the finished current one included
Trip == call.log \o (IF call.done THEN <<Made(call)>> ELSE << >>)

\* the store acknowledged the write n and answered the read n + 1
ReadBack(n) ==
  /\ n + 1 \in DOMAIN Trip
  /\ Trip[n].op = "write_secret" /\ Trip[n].status \in OkStatuses
  /\ Trip[n + 1].op = "read_secret" /\ Trip[n + 1].status = "200"

\* C32: for either KV format, a read that follows an acknowledged write of
\* a bundle to the same path returns exactly that bundle; after a second
\* write the read returns exactly the second bundle, no key of the first
\* surviving
C32_WriteReadRoundTrip ==
  \A n \in DOMAIN Trip :
    ReadBack(n) =>
      /\ ~Trip[n].out.raised /\ Trip[n].out.value = TRUE
      /\ ~Trip[n + 1].out.raised
      /\ Trip[n + 1].out.value = Trip[n].data

\* both writes were read back on a KV v2 client, and the first bundle had
\* a key that the second does not have
C32_Witness ==
  /\ kv_version = 2
  /\ ReadBack(1) /\ ReadBack(3)
  /\ DOMAIN Trip[1].data \ DOMAIN Trip[3].data # {}
  /\ Trip[2].out.value = Trip[1].data
  /\ Trip[4].out.value = Trip[3].data

(* ----------------------- permanent delete path ------------------------- *)
\* C33: for a KV v2 path mount/data/name, delete_metadata addresses
\* mount/metadata/name: only the segment after the mount is translated and
\* the segments of the name are sent as they are
C33_MetadataPathKeepsName ==
  (/\ CallDone("delete_metadata")
   /\ kv_version = 2
   /\ call.path[2] = "data") =>
     /\ Len(call.reqs) = 1
     /\ call.reqs[1].path =
          <<call.path[1], "metadata">> \o SubSeq(call.path, 3, Len(call.path))

(* --------------------------- clone directory --------------------------- *)
\* the run is between its clone and the end of its publication
InWorkspace(i) == st[i].pc \in {"render", "add", "commit", "push"}

\* C34: a clone that succeeds leaves at the local path the checkout of the
\* requested branch as the remote has it and nothing else, whatever was at
\* the path before, a checkout or not
C34_CloneReplacesDirectory ==
  [][\A i \in Procs :
       (st[i].pc = "clone" /\ st'[i].pc = "render") =>
         /\ Exists(disk', LocalPath(st[i]))
         /\ disk'[LocalPath(st[i])] =
              FreshClone(st[i].branch, repo[st[i].branch].commits,
                         repo[st[i].branch].file)]_vars

\* a run has cloned where a directory that was not a checkout had files,
\* and another has just cloned where the checkout of an earlier run had
\* another input.yaml than the remote; what is there now is the remote's
\* input.yaml and no other file
C34_Witness ==
  \E i, j \in Procs :
    /\ st[j].pc = "render"
    /\ \E ws \in st[i].found : ~ws.git /\ ws.other
    /\ \E ws \in st[j].found : ws.git /\ ws.work # repo[st[j].branch].file
    /\ ~disk[LocalPath(st[j])].other
    /\ disk[LocalPath(st[j])].work = repo[st[j].branch].file

\* C35: two runs that are both between their clone and the end of their
\* publication have different clone directories
C35_ExclusiveCloneDirectory ==
  \A i, j \in Procs :
    (i # j /\ InWorkspace(i) /\ InWorkspace(j)) =>
      LocalPath(st[i]) # LocalPath(st[j])

(* ------------------------ Copy runs in sequence ------------------------ *)
\* C36: after a Copy run with overwrite off that no other run overlaps,
\* every key the destination had when the run started is still there, and
\* when the run succeeded every key of its source is there with the
\* source's value
C36_CopyNeverShrinks ==
  \A i \in Procs :
    (/\ st[i].wf = "copy" /\ ~st[i].overwrite
     /\ st[i].pc = "exit" /\ Latest(i)) =>
      LET vault_path == st[i].vault_path
          before == st[i].store0
      IN /\ vault_path \in DOMAIN before =>
              /\ vault_path \in DOMAIN store
              /\ DOMAIN before[vault_path] \subseteq DOMAIN store[vault_path]
         /\ st[i].returned = "value" =>
              \A k \in DOMAIN before[st[i].source_path] :
                /\ k \in DOMAIN store[vault_path]
                /\ store[vault_path][k] = before[st[i].source_path][k]

(* ---------------------- Delete of an absent path ----------------------- *)
\* the Delete run i has ended after its read was answered 404
DeletedNothing(i) ==
  /\ st[i].wf = "delete"
  /\ st[i].pc = "exit"
  /\ st[i].reqs # << >>
  /\ st[i].reqs[1].status = "404"

\* C37: a Delete of a path that does not exist sends no delete request,
\* goes through manifest generation with the action "delete" and no keys,
\* and exits with 0; when the git steps succeeded the branch of the
\* environment has that manifest
C37_AbsentDeleteStillPublishes ==
  \A i \in Procs :
    DeletedNothing(i) =>
      /\ Mutations(i) = {}
      /\ st[i].yaml_called
      /\ st[i].context_action = "delete"
      /\ st[i].keys = {}
      /\ st[i].exit_code = 0
      /\ (st[i].yaml_generated /\ Latest(i)) =>
           repo[st[i].branch].file = Render(st[i].env, "delete", {})

\* such a run has pushed the manifest in a commit
C37_Witness ==
  \E i \in Procs :
    /\ DeletedNothing(i)
    /\ st[i].vault_path \notin DOMAIN st[i].store0
    /\ st[i].yaml_generated
    /\ st[i].ahead = 1
    /\ repo[st[i].branch].commits >= 1
    /\ repo[st[i].branch].file = Render(st[i].env, "delete", {})
    /\ st[i].exit_code = 0

(* -------------------------- outcomes of send --------------------------- *)
\* C38: a send that has ended has made at least one delivery attempt, and
\* has either returned the receipt of an attempt that got an ok response
\* or raised NotificationError
C38_SendDeliversOrRaises ==
  notifier.pc = "done" =>
    /\ Posts # {}
    /\ notifier.result \in {"dict", "NotificationError"}
    /\ notifier.result = "dict" <=>
         \E k \in Posts : notifier.log[k].outcome = "ok"

(* ------------------------- value-entry write --------------------------- *)
\* the value-entry run i has passed the checks of its configuration and
\* has ended
ValueRunEnded(i) ==
  /\ st[i].wf = "value"
  /\ st[i].pc = "exit"
  /\ st[i].vault_path # NoPath

\* C39: a value-entry run that passed the configuration checks has sent,
\* under every action, one write to the vault path with a bundle of exactly
\* the requested keys (the empty string for a key without a value), before
\* manifest generation; it exits with 0 only when that write was
\* acknowledged
C39_ValueWriteEveryAction ==
  \A i \in Procs :
    ValueRunEnded(i) =>
      /\ Len(st[i].reqs) = 1
      /\ st[i].reqs[1].method = "POST"
      /\ st[i].reqs[1].path = st[i].vault_path
      /\ LET b == StoredOf(kv_version, st[i].reqs[1].body) IN
           /\ DOMAIN b = st[i].keys
           /\ \A k \in st[i].keys :
                b[k] = IF k \in DOMAIN st[i].options THEN st[i].options[k]
                                                     ELSE EmptyString
      /\ st[i].yaml_called => st[i].reqs[1].status \in OkStatuses
      /\ st[i].exit_code = 0 => st[i].reqs[1].status \in OkStatuses

====
